---------------------------- MODULE Spec2Model ----------------------------
(***************************************************************************)
(* Model of console_2048: the grid engine (shift_grid_left and the four    *)
(* direction wrappers), random tile insertion, the win/loss predicates,    *)
(* the animation pool and the game_step state machine of src/game.c.       *)
(*                                                                         *)
(* Grids are functions [0..GRID_SIZE-1 -> [0..GRID_SIZE-1 -> Int]], the    *)
(* animation pool is a function on 0..MAX_ANIMATIONS-1, both indexed from  *)
(* zero as in the C source.                                                *)
(***************************************************************************)
EXTENDS Integers, Sequences, FiniteSets, TLC

(***************************************************************************)
(* Program constants (game.h, appended to src/game.c).                     *)
(***************************************************************************)
GRID_SIZE == 4
NUM_CELLS == 16
MAX_ANIMATIONS == 16
ANI_STEP_SIZE == 1
ANIM_SLOW_DOWN == 1

ANI_BLOCK_DEAD == 1
ANI_BLOCK_IDLE == 2
ANI_BLOCK_MOVING == 3

ENTER_TITLE_SCREEN == 1
TITLE_SCREEN_INPUT == 2
ENTER_INSTRUCTION_SCREEN == 3
INSTRUCTION_SCREEN_INPUT == 4
ENTER_DIFFICULTY_SCREEN == 5
DIFFICULTY_SCREEN_INPUT == 6
GAME_START == 7
ENTER_GAME == 8
GAME_INPUT == 9
SHIFTING_BLOCKS == 11
DONE_SHIFTING_BLOCKS == 12
GAME_VICTORY == 13
GAME_DEFEAT == 14
GAME_OVER_INPUT == 31
\* Not a state of game.h: the process has called exit(0).
PROCESS_EXITED == 0

CONSOLE_HEIGHT == 25
CONSOLE_WIDTH == 80

CONSOLE_ROW(R) == (R * 6) + 1
CONSOLE_COL(C) == (C * 12) + 1

(***************************************************************************)
(* Bounds of the model.                                                    *)
(***************************************************************************)
\* Tile values drawn for input grids are 2^1 .. 2^MaxExp.
MaxExp == 2
\* Cells of a lost (checkerboard) grid that an input grid may overwrite.
MaxEdits == 1
\* Functions applied in sequence to one input grid in SpecGrid.
MaxCalls == 2
\* rand() returns a value in 0 .. RandRange-1 in Spec.
RandRange == 2
\* Successful shifts over the life of the process in Spec.
MaxMoves == 1
\* Digit keys '1' .. MaxDigit that Spec presses on the difficulty screen.
MaxDigit == 2
\* Games started over the life of the process in Spec.
MaxGames == 1
\* Largest width and height of the consoles of SpecConsole.
MaxDim == 3
\* Console calls made in a row in SpecConsole.
MaxConsoleCalls == 2

VARIABLES
    game_state,          \* static int game_state
    number_grid,         \* static int number_grid[GRID_SIZE][GRID_SIZE]
    animated_blocks,     \* static animated_block_t animated_blocks[MAX_ANIMATIONS]
    animated_background, \* static int animated_background[GRID_SIZE][GRID_SIZE]
    current_score,       \* static unsigned int current_score
    high_score,          \* static unsigned int high_score
    winning_tile,        \* static int winning_tile
    game_timer,          \* static unsigned long game_timer, modulo ANIM_SLOW_DOWN
    ch,                  \* game_step's ch: the key polled by the last step
    rt,                  \* value returned by the function the last step called
    op,                  \* name of the function or handler the last step ran
    old_state,           \* game_state before the last step
    old_grid,            \* number_grid before the last step
    old_score,           \* current_score before the last step
    old_high,            \* high_score before the last step
    calls,               \* SpecGrid: functions applied so far
    moves,               \* Spec: successful shifts so far
    games,               \* Spec: games started so far
    console,             \* a console_t and the buffer at its base_addr
    old_console,         \* console before the last step
    touched,             \* buffer offsets the last console call read or wrote
    args                 \* arguments of the last console call

vars == <<game_state, number_grid, animated_blocks, animated_background,
          current_score, high_score, winning_tile, game_timer, ch, rt, op,
          old_state, old_grid, old_score, old_high, calls, moves, games,
          console, old_console, touched, args>>

Idx == 0 .. (GRID_SIZE - 1)
Slots == 0 .. (MAX_ANIMATIONS - 1)

ZeroGrid == [ii \in Idx |-> [jj \in Idx |-> 0]]

\* A zero-initialised static animated_block_t whose state main() set to DEAD.
DeadBlock ==
    [state |-> ANI_BLOCK_DEAD, cur_row |-> 0, cur_col |-> 0, dest_row |-> 0,
     dest_col |-> 0, moving_value |-> 0, idle_value |-> 0]

DeadPool == [ii \in Slots |-> DeadBlock]

MinOf(S) == CHOOSE x \in S : \A y \in S : x <= y

\* An int stored into a uint8_t field (cur_row, cur_col, dest_row, dest_col).
ToU8(v) == v % 256

(***************************************************************************)
(* add_animation: take the first DEAD slot, if any; otherwise drop.        *)
(***************************************************************************)
\* add_animation that takes slot 0 when no slot is DEAD.
bad_full_add_animation(animation_list, start_row, start_col, end_row, end_col, start_val, end_val) ==
    LET dead == {idx \in Slots : animation_list[idx].state = ANI_BLOCK_DEAD}
    IN  [animation_list EXCEPT ![IF dead = {} THEN 0 ELSE MinOf(dead)] =
            [state |-> ANI_BLOCK_MOVING,
             cur_row |-> ToU8(start_row), cur_col |-> ToU8(start_col),
             dest_row |-> ToU8(end_row), dest_col |-> ToU8(end_col),
             moving_value |-> start_val, idle_value |-> end_val]]

\* add_animation that records the start value as the idle value.
\* add_animation searching only the first half of the pool.
bad_half_add_animation(animation_list, start_row, start_col, end_row, end_col, start_val, end_val) ==
    LET dead == {idx \in Slots : /\ 2 * idx < MAX_ANIMATIONS
                                 /\ animation_list[idx].state = ANI_BLOCK_DEAD}
    IN  IF dead = {} THEN animation_list
        ELSE [animation_list EXCEPT ![MinOf(dead)] =
                [state |-> ANI_BLOCK_MOVING,
                 cur_row |-> ToU8(start_row), cur_col |-> ToU8(start_col),
                 dest_row |-> ToU8(end_row), dest_col |-> ToU8(end_col),
                 moving_value |-> start_val, idle_value |-> end_val]]

bad_add_animation(animation_list, start_row, start_col, end_row, end_col, start_val, end_val) ==
    LET dead == {idx \in Slots : animation_list[idx].state = ANI_BLOCK_DEAD}
    IN  IF dead = {} THEN animation_list
        ELSE [animation_list EXCEPT ![MinOf(dead)] =
                [state |-> ANI_BLOCK_MOVING,
                 cur_row |-> ToU8(start_row), cur_col |-> ToU8(start_col),
                 dest_row |-> ToU8(end_row), dest_col |-> ToU8(end_col),
                 moving_value |-> start_val, idle_value |-> start_val]]

add_animation(animation_list, start_row, start_col, end_row, end_col, start_val, end_val) ==
    LET dead == {idx \in Slots : animation_list[idx].state = ANI_BLOCK_DEAD}
    IN  IF dead = {} THEN animation_list
        ELSE [animation_list EXCEPT ![MinOf(dead)] =
                [state |-> ANI_BLOCK_MOVING,
                 cur_row |-> ToU8(start_row), cur_col |-> ToU8(start_col),
                 dest_row |-> ToU8(end_row), dest_col |-> ToU8(end_col),
                 moving_value |-> start_val, idle_value |-> end_val]]

(***************************************************************************)
(* update_score on a memory record m (the globals shift_grid_left touches: *)
(* grid, anims, bg, current_score, high_score, something_shifted).         *)
(* Scores stay far below 2^32 on a 4x4 board, so no wrap is modelled.      *)
(***************************************************************************)
\* update_score without the comparison.
bad_update_score(m, score) ==
    [m EXCEPT !.current_score = score, !.high_score = score]

update_score(m, score) ==
    [m EXCEPT !.current_score = score,
              !.high_score = IF score > @ THEN score ELSE @]

\* combine_value = cur_val * 2
bad_combine_value(cur_val) == cur_val + 2
combine_value(cur_val) == cur_val * 2

\* the argument of update_score at a merge: current_score + combine_value
bad_merged_score(score, combined) == combined
merged_score(score, combined) == score + combined

\* "Increment prev": prev_idx = prev_idx + 1
bad_increment_prev(prev_idx, merged) == IF merged THEN prev_idx ELSE prev_idx + 1
increment_prev(prev_idx, merged) == prev_idx + 1

\* else if(prev_idx + 1 < cur_idx): the blocks are not already adjacent
bad_not_adjacent(prev_idx, cur_idx) == prev_idx + 1 <= cur_idx
not_adjacent(prev_idx, cur_idx) == prev_idx + 1 < cur_idx

\* move_block that leaves the background as it was.
bad_move_block(m, row, from, to, new_val, start_val, end_val) ==
    [m EXCEPT !.something_shifted = 1,
              !.grid[row][to] = new_val,
              !.grid[row][from] = 0,
              !.anims = add_animation(@, row, from, row, to, start_val, end_val),
              !.accessed = @ \cup {<<row, to>>, <<row, from>>}]

\* The three writes every move makes: destination, source, background.
move_block(m, row, from, to, new_val, start_val, end_val) ==
    [m EXCEPT !.something_shifted = 1,
              !.grid[row][to] = new_val,
              !.grid[row][from] = 0,
              !.anims = add_animation(@, row, from, row, to, start_val, end_val),
              !.bg[row][from] = 0,
              !.accessed = @ \cup {<<row, to>>, <<row, from>>}]

\* merge_blocks that leaves the merged tile in its cell.
bad_keep_merge_blocks(m, row, prev_idx, cur_idx, cur_val) ==
    LET m1 == [m EXCEPT !.something_shifted = 1,
                        !.grid[row][prev_idx] = combine_value(cur_val)]
        m2 == update_score(m1, merged_score(m1.current_score,
                                            combine_value(cur_val)))
    IN  [m2 EXCEPT !.anims = add_animation(@, row, cur_idx, row, prev_idx,
                                           cur_val, cur_val * 2),
                   !.bg[row][cur_idx] = 0,
                   !.accessed = @ \cup {<<row, prev_idx>>, <<row, cur_idx>>}]

\* merge_blocks that does not report the merge as a change.
bad_merge_blocks(m, row, prev_idx, cur_idx, cur_val) ==
    LET m1 == [m EXCEPT !.grid[row][prev_idx] = combine_value(cur_val)]
        m2 == update_score(m1, merged_score(m1.current_score,
                                            combine_value(cur_val)))
        m3 == [m2 EXCEPT !.grid[row][cur_idx] = 0]
    IN  [m3 EXCEPT !.anims = add_animation(@, row, cur_idx, row, prev_idx,
                                           cur_val, cur_val * 2),
                   !.bg[row][cur_idx] = 0,
                   !.accessed = @ \cup {<<row, prev_idx>>, <<row, cur_idx>>}]

\* One merge: lines 706-721.
merge_blocks(m, row, prev_idx, cur_idx, cur_val) ==
    LET m1 == [m EXCEPT !.something_shifted = 1,
                        !.grid[row][prev_idx] = combine_value(cur_val)]
        m2 == update_score(m1, merged_score(m1.current_score,
                                            combine_value(cur_val)))
        m3 == [m2 EXCEPT !.grid[row][cur_idx] = 0]
    IN  [m3 EXCEPT !.anims = add_animation(@, row, cur_idx, row, prev_idx,
                                           cur_val, cur_val * 2),
                   !.bg[row][cur_idx] = 0,
                   !.accessed = @ \cup {<<row, prev_idx>>, <<row, cur_idx>>}]

(***************************************************************************)
(* The while loop of shift_grid_left for one row (lines 702-766).  The     *)
(* read grid[row][cur_idx] made after the last increment (cur_idx =        *)
(* GRID_SIZE) is past the row; its value is never used, so it is modelled  *)
(* as 0.  The field accessed of m collects the index pairs <<row, col>>    *)
(* at which grid and shift_background are read or written.                 *)
(***************************************************************************)
RECURSIVE shift_row_loop(_, _, _, _, _, _)
shift_row_loop(m, row, prev_idx, prev_val, cur_idx, cur_val) ==
    IF ~(cur_idx < GRID_SIZE) THEN m
    ELSE
      LET s == IF cur_val > 0
               THEN IF prev_val > 0
                    THEN LET m1 == IF cur_val = prev_val
                                   THEN merge_blocks(m, row, prev_idx, cur_idx,
                                                     cur_val)
                                   ELSE IF not_adjacent(prev_idx, cur_idx)
                                   THEN move_block(m, row, cur_idx,
                                                   prev_idx + 1, cur_val,
                                                   cur_val, cur_val)
                                   ELSE m
                             p1 == increment_prev(prev_idx, cur_val = prev_val)
                         IN  [m |-> [m1 EXCEPT !.accessed = @ \cup {<<row, p1>>}],
                              prev_idx |-> p1,
                              prev_val |-> m1.grid[row][p1]]
                    ELSE [m |-> move_block(m, row, cur_idx, prev_idx, cur_val,
                                           cur_val, cur_val),
                          prev_idx |-> prev_idx, prev_val |-> cur_val]
               ELSE [m |-> m, prev_idx |-> prev_idx, prev_val |-> prev_val]
          next_idx == cur_idx + 1
          next_val == IF next_idx < GRID_SIZE THEN s.m.grid[row][next_idx]
                      ELSE 0
      IN  shift_row_loop([s.m EXCEPT !.accessed = @ \cup {<<row, next_idx>>}],
                         row, s.prev_idx, s.prev_val, next_idx, next_val)

\* The for loop over rows (lines 696-767).
RECURSIVE shift_rows_from(_, _)
shift_rows_from(m, row) ==
    IF ~(row < GRID_SIZE) THEN m
    ELSE shift_rows_from(
             shift_row_loop([m EXCEPT !.accessed = @ \cup {<<row, 0>>, <<row, 1>>}],
                            row, 0, m.grid[row][0], 1, m.grid[row][1]),
             row + 1)

(***************************************************************************)
(* shift_grid_left(grid, shift_animations, shift_background): the          *)
(* background starts as a copy of the grid; the result record carries the  *)
(* three arrays, the two scores and the return value something_shifted.    *)
(***************************************************************************)
shift_grid_left(grid, shift_animations, score, high) ==
    shift_rows_from([grid |-> grid, anims |-> shift_animations, bg |-> grid,
                     current_score |-> score, high_score |-> high,
                     something_shifted |-> 0, accessed |-> Idx \X Idx], 0)

(***************************************************************************)
(* In-place grid transforms (lines 569-617), as the permutation each loop  *)
(* nest performs.                                                          *)
(***************************************************************************)
\* swap grid[ii][jj] with grid[jj][ii] for every jj < ii
transpose(grid) == [ii \in Idx |-> [jj \in Idx |-> grid[jj][ii]]]

\* swap row ii with row GRID_SIZE - ii - 1 for ii < GRID_SIZE / 2
reverse_cols(grid) ==
    [ii \in Idx |-> [jj \in Idx |-> grid[GRID_SIZE - ii - 1][jj]]]

\* swap grid[ii][jj] with grid[ii][GRID_SIZE - jj - 1] for jj < GRID_SIZE / 2
reverse_rows(grid) ==
    [ii \in Idx |-> [jj \in Idx |-> grid[ii][GRID_SIZE - jj - 1]]]

bad_rot_left(grid) == reverse_rows(transpose(grid))
rot_left(grid) == reverse_cols(transpose(grid))

rot_right(grid) == reverse_rows(transpose(grid))

(***************************************************************************)
(* The fix-up loops of the four wrappers: every MOVING slot's grid         *)
(* coordinates become console coordinates, undoing the wrapper's           *)
(* transform.                                                              *)
(***************************************************************************)
fixup_left(cur) ==
    [cur EXCEPT !.cur_row = ToU8(CONSOLE_ROW(cur.cur_row)),
                !.cur_col = ToU8(CONSOLE_COL(cur.cur_col)),
                !.dest_row = ToU8(CONSOLE_ROW(cur.dest_row)),
                !.dest_col = ToU8(CONSOLE_COL(cur.dest_col))]

fixup_right(cur) ==
    [cur EXCEPT !.cur_row = ToU8(CONSOLE_ROW(cur.cur_row)),
                !.cur_col = ToU8(CONSOLE_COL(GRID_SIZE - cur.cur_col - 1)),
                !.dest_row = ToU8(CONSOLE_ROW(cur.dest_row)),
                !.dest_col = ToU8(CONSOLE_COL(GRID_SIZE - cur.dest_col - 1))]

fixup_down(cur) ==
    [cur EXCEPT !.cur_row = ToU8(CONSOLE_ROW(GRID_SIZE - cur.cur_col - 1)),
                !.cur_col = ToU8(CONSOLE_COL(cur.cur_row)),
                !.dest_row = ToU8(CONSOLE_ROW(GRID_SIZE - cur.dest_col - 1)),
                !.dest_col = ToU8(CONSOLE_COL(cur.dest_row))]

bad_fixup_up(cur) ==
    [cur EXCEPT !.cur_row = ToU8(CONSOLE_ROW(cur.cur_col)),
                !.cur_col = ToU8(CONSOLE_COL(cur.cur_row)),
                !.dest_row = ToU8(CONSOLE_ROW(cur.dest_col)),
                !.dest_col = ToU8(CONSOLE_COL(cur.dest_row))]

fixup_up(cur) ==
    [cur EXCEPT !.cur_row = ToU8(CONSOLE_ROW(cur.cur_col)),
                !.cur_col = ToU8(CONSOLE_COL(GRID_SIZE - cur.cur_row - 1)),
                !.dest_row = ToU8(CONSOLE_ROW(cur.dest_col)),
                !.dest_col = ToU8(CONSOLE_COL(GRID_SIZE - cur.dest_row - 1))]

fixup_all(anims, dir) ==
    [ii \in Slots |->
        IF anims[ii].state = ANI_BLOCK_MOVING
        THEN CASE dir = "left" -> fixup_left(anims[ii])
               [] dir = "right" -> fixup_right(anims[ii])
               [] dir = "down" -> fixup_down(anims[ii])
               [] dir = "up" -> fixup_up(anims[ii])
        ELSE anims[ii]]

(***************************************************************************)
(* shift_left / shift_right / shift_down / shift_up (lines 771-879) on the *)
(* globals g = [grid, anims, bg, current_score, high_score]; the result    *)
(* adds the return value rt.                                               *)
(***************************************************************************)
shift_left(g) ==
    LET r == shift_grid_left(g.grid, g.anims, g.current_score, g.high_score)
    IN  [grid |-> r.grid,
         anims |-> IF r.something_shifted # 0 THEN fixup_all(r.anims, "left")
                   ELSE r.anims,
         bg |-> r.bg,
         current_score |-> r.current_score, high_score |-> r.high_score,
         rt |-> r.something_shifted, accessed |-> r.accessed]

shift_right(g) ==
    LET r == shift_grid_left(reverse_rows(g.grid), g.anims, g.current_score,
                             g.high_score)
    IN  [grid |-> reverse_rows(r.grid),
         anims |-> IF r.something_shifted # 0 THEN fixup_all(r.anims, "right")
                   ELSE r.anims,
         bg |-> IF r.something_shifted # 0 THEN reverse_rows(r.bg) ELSE r.bg,
         current_score |-> r.current_score, high_score |-> r.high_score,
         rt |-> r.something_shifted, accessed |-> r.accessed]

shift_down(g) ==
    LET r == shift_grid_left(rot_right(g.grid), g.anims, g.current_score,
                             g.high_score)
    IN  [grid |-> rot_left(r.grid),
         anims |-> IF r.something_shifted # 0 THEN fixup_all(r.anims, "down")
                   ELSE r.anims,
         bg |-> IF r.something_shifted # 0 THEN rot_left(r.bg) ELSE r.bg,
         current_score |-> r.current_score, high_score |-> r.high_score,
         rt |-> r.something_shifted, accessed |-> r.accessed]

shift_up(g) ==
    LET r == shift_grid_left(rot_left(g.grid), g.anims, g.current_score,
                             g.high_score)
    IN  [grid |-> rot_right(r.grid),
         anims |-> IF r.something_shifted # 0 THEN fixup_all(r.anims, "up")
                   ELSE r.anims,
         bg |-> IF r.something_shifted # 0 THEN rot_right(r.bg) ELSE r.bg,
         current_score |-> r.current_score, high_score |-> r.high_score,
         rt |-> r.something_shifted, accessed |-> r.accessed]

(***************************************************************************)
(* add_random_block (lines 538-567).  first_rand and second_rand are the   *)
(* two values rand() returns; locations[] lists the empty cells in         *)
(* row-major order.                                                        *)
(***************************************************************************)
\* empty_locations that remembers every cell, empty or not.
bad_empty_locations(grid, k) ==
    [n \in 1 .. NUM_CELLS |-> <<(n - 1) \div GRID_SIZE, (n - 1) % GRID_SIZE>>]

RECURSIVE empty_locations(_, _)
empty_locations(grid, k) ==
    IF k >= GRID_SIZE * GRID_SIZE THEN <<>>
    ELSE LET ii == k \div GRID_SIZE
             jj == k % GRID_SIZE
         IN  (IF grid[ii][jj] = 0 THEN <<(<<ii, jj>>)>> ELSE <<>>)
             \o empty_locations(grid, k + 1)

bad_rand_value(first_rand) == (first_rand % 2) * 2
rand_value(first_rand) == ((first_rand % 2) + 1) * 2

add_random_block(grid, first_rand, second_rand) ==
    LET locations == empty_locations(grid, 0)
        count == Len(locations)
    IN  IF count = 0 THEN grid
        ELSE LET loc == locations[(second_rand % count) + 1]
             IN  [grid EXCEPT ![loc[1]][loc[2]] = rand_value(first_rand)]

(***************************************************************************)
(* can_move, is_game_won, is_game_lost (lines 969-1041), returning 0 or 1. *)
(***************************************************************************)
\* can_move without the "other == value" tests.
bad_can_move(row, col, grid) ==
    IF grid[row][col] = 0 THEN 0
    ELSE IF \/ (row - 1) >= 0 /\ grid[row - 1][col] = 0
            \/ (row + 1) < GRID_SIZE /\ grid[row + 1][col] = 0
            \/ (col - 1) >= 0 /\ grid[row][col - 1] = 0
            \/ (col + 1) < GRID_SIZE /\ grid[row][col + 1] = 0
    THEN 1 ELSE 0

can_move(row, col, grid) ==
    LET value == grid[row][col]
    IN  IF value = 0 THEN 0
        ELSE IF (row - 1) >= 0
                /\ (grid[row - 1][col] = 0 \/ grid[row - 1][col] = value)
        THEN 1
        ELSE IF (row + 1) < GRID_SIZE
                /\ (grid[row + 1][col] = 0 \/ grid[row + 1][col] = value)
        THEN 1
        ELSE IF (col - 1) >= 0
                /\ (grid[row][col - 1] = 0 \/ grid[row][col - 1] = value)
        THEN 1
        ELSE IF (col + 1) < GRID_SIZE
                /\ (grid[row][col + 1] = 0 \/ grid[row][col + 1] = value)
        THEN 1
        ELSE 0

\* is_game_won with both loops stopping one cell early.
\* is_game_won that waits for a tile above the target.
bad_late_is_game_won(grid, win_tile) ==
    IF \E ii \in Idx, jj \in Idx : grid[ii][jj] > win_tile THEN 1 ELSE 0

bad_is_game_won(grid, win_tile) ==
    IF \E ii \in 0 .. (GRID_SIZE - 2), jj \in 0 .. (GRID_SIZE - 2) :
           grid[ii][jj] = win_tile
    THEN 1 ELSE 0

is_game_won(grid, win_tile) ==
    IF \E ii \in Idx, jj \in Idx : grid[ii][jj] = win_tile THEN 1 ELSE 0

\* is_game_lost that takes any tile on the board for a tile that can move.
bad_is_game_lost(grid) ==
    IF \E ii \in Idx, jj \in Idx : grid[ii][jj] = 0 \/ grid[ii][jj] > 0
    THEN 0 ELSE 1

is_game_lost(grid) ==
    IF \E ii \in Idx, jj \in Idx :
           grid[ii][jj] = 0 \/ can_move(ii, jj, grid) # 0
    THEN 0 ELSE 1

(***************************************************************************)
(* step_moving_blocks (lines 881-929): every MOVING slot steps each axis   *)
(* toward its destination by at most ANI_STEP_SIZE; a slot found already   *)
(* at its destination becomes IDLE.  The result is the pool and the return *)
(* value something_moved.                                                  *)
(***************************************************************************)
\* step_axis that never steps back toward a smaller coordinate.
bad_step_axis(pos, dest) ==
    LET delta == pos - dest
    IN  IF delta < 0
        THEN pos + (IF -delta < ANI_STEP_SIZE THEN -delta ELSE ANI_STEP_SIZE)
        ELSE pos

step_axis(pos, dest) ==
    LET delta == pos - dest
    IN  IF delta < 0
        THEN pos + (IF -delta < ANI_STEP_SIZE THEN -delta ELSE ANI_STEP_SIZE)
        ELSE IF delta > 0
        THEN pos - (IF delta < ANI_STEP_SIZE THEN delta ELSE ANI_STEP_SIZE)
        ELSE pos

step_block(cur) ==
    IF cur.state # ANI_BLOCK_MOVING THEN cur
    ELSE IF cur.cur_row = cur.dest_row /\ cur.cur_col = cur.dest_col
    THEN [cur EXCEPT !.state = ANI_BLOCK_IDLE]
    ELSE [cur EXCEPT !.cur_row = step_axis(cur.cur_row, cur.dest_row),
                     !.cur_col = step_axis(cur.cur_col, cur.dest_col)]

\* step_moving_blocks that reports a move for every slot it found MOVING.
bad_step_moving_blocks(anims) ==
    [anims |-> [ii \in Slots |-> step_block(anims[ii])],
     something_moved |->
        IF \E ii \in Slots : anims[ii].state = ANI_BLOCK_MOVING
        THEN 1 ELSE 0]

step_moving_blocks(anims) ==
    [anims |-> [ii \in Slots |-> step_block(anims[ii])],
     something_moved |->
        IF \E ii \in Slots :
               /\ anims[ii].state = ANI_BLOCK_MOVING
               /\ ~(anims[ii].cur_row = anims[ii].dest_row
                    /\ anims[ii].cur_col = anims[ii].dest_col)
        THEN 1 ELSE 0]

(***************************************************************************)
(* A console_t: the fields of the struct, and cells, the bytes of the      *)
(* buffer at base_addr indexed by their offset from it (two bytes a cell:  *)
(* character, then colour).                                                *)
(***************************************************************************)
\* back_console as declared (lines 80-87).  What game_step draws into
\* back_buffer is not modelled: cells is left empty.
back_console ==
    [width |-> CONSOLE_WIDTH, height |-> CONSOLE_HEIGHT, row |-> 0, col |-> 0,
     clear_color |-> 0, term_color |-> 0, cells |-> <<>>]

\* The bytes console_putbyte treats specially, and the blank it draws.
BACKSPACE == 8
NEWLINE == 10
RETURN == 13
SPACE == 32

\* (char) v for an int v in -128 .. 255.
ToChar(v) == IF v > 127 THEN v - 256 ELSE v

IS_VALID_COLOR(C) == C >= 0 /\ C <= 255
IS_VALID_CHAR(C) == C >= 0 /\ C <= 255

\* A console call works on m = [con, touched]: the console and the buffer
\* offsets read or written so far by the call.
BufferSize(con) == 2 * con.width * con.height

\* get_addr, as an offset from base_addr.
get_addr(con, row, col) == 2 * (row * con.width + col)

get_cursor_addr(con) == get_addr(con, con.row, con.col)

is_valid_index(con, row, col) ==
    (row >= 0 /\ row < con.height) /\ (col >= 0 /\ col < con.width)

\* Two byte stores.  A store outside the buffer changes no cell of it.
draw_char_at_addr(m, addr, char, color) ==
    [con |-> [m.con EXCEPT !.cells =
                 [k \in DOMAIN m.con.cells |->
                     IF k = addr THEN ToChar(char)
                     ELSE IF k = addr + 1 THEN ToChar(color)
                     ELSE m.con.cells[k]]],
     touched |-> m.touched \cup {addr, addr + 1}]

\* save_len = 2 * h * (w - 1)
scroll_save_len(h, w) == 2 * h * (w - 1)

RECURSIVE clear_row_from(_, _, _)
clear_row_from(m, last_row_addr, ii) ==
    IF ~(ii < m.con.width * 2) THEN m
    ELSE clear_row_from(
             draw_char_at_addr(m, last_row_addr + ii, SPACE, m.con.clear_color),
             last_row_addr, ii + 2)

\* scroll_by_one: memmove(base_addr, second_row_addr, save_len), then the
\* last row is cleared.  A byte memmove reads past the end of the buffer
\* has the value beyond.
scroll_by_one(m, beyond) ==
    LET h == m.con.height
        w == m.con.width
        save_len == scroll_save_len(h, w)
        second_row_addr == get_addr(m.con, 1, 0)
        last_row_addr == get_addr(m.con, h - 1, 0)
        moved ==
            [con |-> [m.con EXCEPT !.cells =
                         [k \in DOMAIN m.con.cells |->
                             IF k < save_len
                             THEN IF second_row_addr + k < BufferSize(m.con)
                                  THEN m.con.cells[second_row_addr + k]
                                  ELSE beyond
                             ELSE m.con.cells[k]]],
             touched |-> m.touched
                           \cup {second_row_addr + k : k \in 0 .. (save_len - 1)}
                           \cup (0 .. (save_len - 1))]
    IN  clear_row_from(moved, last_row_addr, 0)

\* advance_cursor, retreat_cursor, newline, carriage_return: the console
\* after the call; the two that can ask for a scroll also return scroll.
\* advance_cursor without the last-row test.
bad_advance_cursor(con) ==
    IF con.col = con.width - 1
    THEN [con |-> [con EXCEPT !.col = 0, !.row = @ + 1],
          scroll |-> IF con.row = con.height - 1 THEN 1 ELSE 0]
    ELSE [con |-> [con EXCEPT !.col = @ + 1], scroll |-> 0]

advance_cursor(con) ==
    IF con.col = con.width - 1
    THEN IF con.row = con.height - 1
         THEN [con |-> [con EXCEPT !.col = 0], scroll |-> 1]
         ELSE [con |-> [con EXCEPT !.col = 0, !.row = @ + 1], scroll |-> 0]
    ELSE [con |-> [con EXCEPT !.col = @ + 1], scroll |-> 0]

retreat_cursor(con) ==
    IF con.col > 0 THEN [con EXCEPT !.col = @ - 1] ELSE con

newline(con) ==
    IF con.row = con.height - 1
    THEN [con |-> [con EXCEPT !.col = 0], scroll |-> 1]
    ELSE [con |-> [con EXCEPT !.col = 0, !.row = @ + 1], scroll |-> 0]

carriage_return(con) == [con EXCEPT !.col = 0]

console_putbyte(m, byte, beyond) ==
    IF byte = BACKSPACE
    THEN LET c == retreat_cursor(m.con)
         IN  draw_char_at_addr([m EXCEPT !.con = c], get_cursor_addr(c), SPACE,
                               c.term_color)
    ELSE IF byte = NEWLINE
    THEN LET r == newline(m.con)
             m1 == [m EXCEPT !.con = r.con]
         IN  IF r.scroll # 0 THEN scroll_by_one(m1, beyond) ELSE m1
    ELSE IF byte = RETURN
    THEN [m EXCEPT !.con = carriage_return(m.con)]
    ELSE LET m1 == draw_char_at_addr(m, get_cursor_addr(m.con), byte,
                                     m.con.term_color)
             r == advance_cursor(m1.con)
             m2 == [m1 EXCEPT !.con = r.con]
         IN  IF r.scroll # 0 THEN scroll_by_one(m2, beyond) ELSE m2

\* console_putbytes: the first len bytes of s, one console_putbyte each.
RECURSIVE putbytes_from(_, _, _, _, _)
putbytes_from(m, s, len, ii, beyond) ==
    IF ~(ii < len) THEN m
    ELSE putbytes_from(console_putbyte(m, s[ii + 1], beyond), s, len, ii + 1,
                       beyond)

console_putbytes(m, s, len, beyond) ==
    IF len < 0 THEN m ELSE putbytes_from(m, s, len, 0, beyond)

\* console_putstr: s is the string without its terminating 0.
console_putstr(m, s, beyond) == putbytes_from(m, s, Len(s), 0, beyond)

RECURSIVE clear_from(_, _)
clear_from(m, ii) ==
    IF ~(ii < m.con.width * m.con.height) THEN m
    ELSE clear_from(draw_char_at_addr(m, 2 * ii, SPACE, m.con.clear_color),
                    ii + 1)

console_clear(m) ==
    LET m1 == clear_from(m, 0)
    IN  [m1 EXCEPT !.con.row = 0, !.con.col = 0]

console_draw_char(m, row, col, char, color) ==
    IF ~is_valid_index(m.con, row, col) THEN m
    ELSE IF ~IS_VALID_CHAR(char) THEN m
    ELSE IF ~IS_VALID_COLOR(color) THEN m
    ELSE draw_char_at_addr(m, get_addr(m.con, row, col), char, color)

\* console_get_char: the memory record after the read, and the byte read.
console_get_char(m, row, col) ==
    IF ~is_valid_index(m.con, row, col) THEN [m |-> m, rt |-> 0]
    ELSE [m |-> [m EXCEPT !.touched = @ \cup {get_addr(m.con, row, col)}],
          rt |-> m.con.cells[get_addr(m.con, row, col)]]

\* console_get: both bytes of the cell are read.  The function ends
\* without a return statement on this path: the value returned is whatever
\* the build leaves, here undefined.
console_get(m, row, col, undefined) ==
    IF ~is_valid_index(m.con, row, col) THEN [m |-> m, rt |-> 0]
    ELSE [m |-> [m EXCEPT !.touched = @ \cup {get_addr(m.con, row, col),
                                              get_addr(m.con, row, col) + 1}],
          rt |-> undefined]

\* console_set_cursor that reports the failure after homing the column.
bad_console_set_cursor(con, row, col) ==
    IF ~is_valid_index(con, row, col)
    THEN [con |-> [con EXCEPT !.col = 0], rt |-> -1]
    ELSE [con |-> [con EXCEPT !.row = row, !.col = col], rt |-> 0]

\* console_set_cursor: the console after the call, and the value returned.
console_set_cursor(con, row, col) ==
    IF ~is_valid_index(con, row, col) THEN [con |-> con, rt |-> -1]
    ELSE [con |-> [con EXCEPT !.row = row, !.col = col], rt |-> 0]

(***************************************************************************)
(* Keys: what key_input() (getch) can return.  ERR is "no key pending".    *)
(***************************************************************************)
ERR == "ERR"
\* ch of a step that did not call key_input()
NoPoll == "NoPoll"
UpKeys == {"KEY_UP", "W", "w"}
DownKeys == {"KEY_DOWN", "S", "s"}
LeftKeys == {"KEY_LEFT", "A", "a"}
RightKeys == {"KEY_RIGHT", "D", "d"}
MoveKeys == UpKeys \cup DownKeys \cup LeftKeys \cup RightKeys
\* The quit cases with one more case label.
bad_QuitKeys == {"Q", "q", "x"}
QuitKeys == {"Q", "q"}
NewGameKeys == {"N", "n"}
InstructionKeys == {"I", "i"}
DigitOrder == <<"1", "2", "3", "4", "5", "6", "7", "8", "9", "0">>
DigitKeys == {DigitOrder[k] : k \in 1 .. Len(DigitOrder)}
\* A key no state reacts to.
OtherKeys == {"x"}

\* The switch of DIFFICULTY_SCREEN_INPUT (lines 1101-1110).
bad_difficulty_tile(key) ==
    CASE key = "1" -> 8     [] key = "2" -> 32   [] key = "3" -> 32
      [] key = "4" -> 64    [] key = "5" -> 128  [] key = "6" -> 256
      [] key = "7" -> 512   [] key = "8" -> 1024 [] key = "9" -> 2048
      [] key = "0" -> 4096

difficulty_tile(key) ==
    CASE key = "1" -> 8     [] key = "2" -> 16   [] key = "3" -> 32
      [] key = "4" -> 64    [] key = "5" -> 128  [] key = "6" -> 256
      [] key = "7" -> 512   [] key = "8" -> 1024 [] key = "9" -> 2048
      [] key = "0" -> 4096

\* The keys the model presses.
PressedDigits ==
    {DigitOrder[k] : k \in 1 .. (IF MaxDigit < Len(DigitOrder) THEN MaxDigit
                                 ELSE Len(DigitOrder))}
\* In each input state the model polls: no key, a key no switch names, the
\* quit keys, and every key the state's own switch names.  Any other key
\* takes the same path through that switch as the key no switch names.
KeysAt(state) ==
    {ERR} \cup OtherKeys \cup QuitKeys \cup
        (CASE state = TITLE_SCREEN_INPUT -> NewGameKeys \cup InstructionKeys
           [] state = DIFFICULTY_SCREEN_INPUT -> PressedDigits
           [] state = GAME_INPUT -> MoveKeys
           [] OTHER -> {})

\* The values of rand() the game draws.
RandDraws == 0 .. (RandRange - 1)

(***************************************************************************)
(* Drawing (lines 507-536, 620-634, 951-967), at the level of tiles: a     *)
(* picture gives for each character position of the console the value of  *)
(* the block drawn there last, 0 where only the background screen shows.   *)
(* draw_block writes five rows of eleven characters from (row, col).       *)
(***************************************************************************)
BLOCK_ROWS == 5
BLOCK_COLS == 11

ConsolePositions ==
    (0 .. (CONSOLE_HEIGHT - 1)) \X (0 .. (CONSOLE_WIDTH - 1))

draw_background == [p \in ConsolePositions |-> 0]

draw_block(pic, row, col, value) ==
    [p \in ConsolePositions |->
        IF /\ row <= p[1] /\ p[1] < row + BLOCK_ROWS
           /\ col <= p[2] /\ p[2] < col + BLOCK_COLS
        THEN value ELSE pic[p]]

\* The two for loops of draw_blocks, cell k = ii * GRID_SIZE + jj onward.
RECURSIVE draw_blocks(_, _, _)
draw_blocks(pic, grid, k) ==
    IF k = NUM_CELLS THEN pic
    ELSE LET ii == k \div GRID_SIZE
             jj == k % GRID_SIZE
             num == grid[ii][jj]
         IN  draw_blocks(IF num > 0
                         THEN draw_block(pic, CONSOLE_ROW(ii), CONSOLE_COL(jj), num)
                         ELSE pic,
                         grid, k + 1)

\* The for loop over the slots of draw_animation_frame, slot ii onward.
RECURSIVE draw_slots(_, _, _)
draw_slots(pic, anims, ii) ==
    IF ii = MAX_ANIMATIONS THEN pic
    ELSE LET cur == anims[ii]
         IN  draw_slots(IF cur.state = ANI_BLOCK_MOVING
                        THEN draw_block(pic, cur.cur_row, cur.cur_col,
                                        cur.moving_value)
                        ELSE IF cur.state = ANI_BLOCK_IDLE
                        THEN draw_block(pic, cur.cur_row, cur.cur_col,
                                        cur.idle_value)
                        ELSE pic,
                        anims, ii + 1)

\* draw_animation_frame that draws the IDLE slots first.
bad_draw_animation_frame(bg, anims) ==
    draw_blocks(draw_slots(draw_background, anims, 0), bg, 0)

draw_animation_frame(bg, anims) ==
    draw_slots(draw_blocks(draw_background, bg, 0), anims, 0)

\* A reset that releases only the slots still MOVING.
bad_reset_blocks(anims) ==
    [ii \in Slots |->
        IF anims[ii].state = ANI_BLOCK_MOVING
        THEN [anims[ii] EXCEPT !.state = ANI_BLOCK_DEAD] ELSE anims[ii]]

\* DONE_SHIFTING_BLOCKS, lines 1182-1184: every slot's state becomes DEAD.
reset_blocks(anims) == [ii \in Slots |-> [anims[ii] EXCEPT !.state = ANI_BLOCK_DEAD]]

\* The globals the shift functions read and write.
Globals ==
    [grid |-> number_grid, anims |-> animated_blocks,
     bg |-> animated_background, current_score |-> current_score,
     high_score |-> high_score]

\* What instruction_screen (lines 125-128) tells the player each letter does.
instruction_screen(key) ==
    CASE key \in {"W", "w"} -> "shift_up"
      [] key \in {"A", "a"} -> "shift_left"
      [] key \in {"S", "s"} -> "shift_right"
      [] key \in {"D", "d"} -> "shift_down"

\* The shift GAME_INPUT calls for a move key (lines 1135-1162).
shift_for_key(key, g) ==
    CASE key \in UpKeys -> shift_up(g)
      [] key \in DownKeys -> shift_down(g)
      [] key \in LeftKeys -> shift_left(g)
      [] key \in RightKeys -> shift_right(g)

shift_name(key) ==
    CASE key \in UpKeys -> "shift_up"
      [] key \in DownKeys -> "shift_down"
      [] key \in LeftKeys -> "shift_left"
      [] key \in RightKeys -> "shift_right"

\* if(shift_xxx()) game_state = SHIFTING_BLOCKS; (lines 1138-1161)
bad_state_after_shift(shifted) == SHIFTING_BLOCKS
state_after_shift(shifted) ==
    IF shifted # 0 THEN SHIFTING_BLOCKS ELSE GAME_INPUT

\* game_timer++, kept modulo ANIM_SLOW_DOWN: only that residue is ever read.
timer_inc(t) == (t + 1) % ANIM_SLOW_DOWN

\* What every step records about the state it started from.
Remember ==
    /\ old_state' = game_state
    /\ old_grid' = number_grid
    /\ old_score' = current_score
    /\ old_high' = high_score

\* The drawing calls of game_step write cells of back_console only, and no
\* case of game_step reads the console; the steps of the game leave the
\* console of this model as it is.
ConsoleFrame == UNCHANGED <<console, old_console, touched, args>>

GameFrame ==
    UNCHANGED <<number_grid, animated_blocks, animated_background,
                current_score, high_score, winning_tile>>

(***************************************************************************)
(* game_step (lines 1043-1221), one action per case of the switch.         *)
(***************************************************************************)
\* The state each drawing case assigns before its break.
bad_state_after_draw(state) ==
    CASE state = ENTER_TITLE_SCREEN -> TITLE_SCREEN_INPUT
      [] state = ENTER_INSTRUCTION_SCREEN -> INSTRUCTION_SCREEN_INPUT
      [] state = ENTER_DIFFICULTY_SCREEN -> DIFFICULTY_SCREEN_INPUT
      [] state = GAME_VICTORY -> GAME_OVER_INPUT
      [] state = GAME_DEFEAT -> ENTER_TITLE_SCREEN
state_after_draw(state) ==
    CASE state = ENTER_TITLE_SCREEN -> TITLE_SCREEN_INPUT
      [] state = ENTER_INSTRUCTION_SCREEN -> INSTRUCTION_SCREEN_INPUT
      [] state = ENTER_DIFFICULTY_SCREEN -> DIFFICULTY_SCREEN_INPUT
      [] state = GAME_VICTORY -> GAME_OVER_INPUT
      [] state = GAME_DEFEAT -> GAME_OVER_INPUT

\* ENTER_TITLE_SCREEN, ENTER_INSTRUCTION_SCREEN, ENTER_DIFFICULTY_SCREEN,
\* GAME_VICTORY, GAME_DEFEAT: draw, then move on.
EnterScreen ==
    /\ game_state \in {ENTER_TITLE_SCREEN, ENTER_INSTRUCTION_SCREEN,
                       ENTER_DIFFICULTY_SCREEN, GAME_VICTORY, GAME_DEFEAT}
    /\ game_state' = state_after_draw(game_state)
    /\ ch' = NoPoll /\ rt' = 0 /\ op' = "game_step"
    /\ Remember /\ ConsoleFrame /\ GameFrame
    /\ UNCHANGED <<game_timer, calls, moves, games>>

TitleInput ==
    /\ game_state = TITLE_SCREEN_INPUT
    /\ \E key \in KeysAt(game_state) :
         /\ ch' = key
         /\ game_state' =
              IF key \in NewGameKeys THEN ENTER_DIFFICULTY_SCREEN
              ELSE IF key \in InstructionKeys THEN ENTER_INSTRUCTION_SCREEN
              ELSE IF key \in QuitKeys THEN PROCESS_EXITED
              ELSE game_state
    /\ rt' = 0 /\ op' = "game_step"
    /\ Remember /\ ConsoleFrame /\ GameFrame
    /\ UNCHANGED <<game_timer, calls, moves, games>>

\* INSTRUCTION_SCREEN_INPUT and GAME_OVER_INPUT: only quit is recognised.
QuitOnlyInput ==
    /\ game_state \in {INSTRUCTION_SCREEN_INPUT, GAME_OVER_INPUT}
    /\ \E key \in KeysAt(game_state) :
         /\ ch' = key
         /\ game_state' = IF key \in QuitKeys THEN ENTER_TITLE_SCREEN
                          ELSE game_state
    /\ rt' = 0 /\ op' = "game_step"
    /\ Remember /\ ConsoleFrame /\ GameFrame
    /\ UNCHANGED <<game_timer, calls, moves, games>>

DifficultyInput ==
    /\ game_state = DIFFICULTY_SCREEN_INPUT
    /\ \E key \in KeysAt(game_state) :
         /\ ch' = key
         /\ key \in DigitKeys => games < MaxGames
         /\ IF key \in DigitKeys
            THEN /\ winning_tile' = difficulty_tile(key)
                 /\ game_state' = GAME_START
                 /\ games' = games + 1
            ELSE UNCHANGED <<winning_tile, game_state, games>>
    /\ rt' = 0 /\ op' = "game_step"
    /\ Remember /\ ConsoleFrame
    /\ UNCHANGED <<number_grid, animated_blocks, animated_background,
                   current_score, high_score, game_timer, calls, moves>>

\* GAME_START falls through into ENTER_GAME (no break at line 1124).
GameStart ==
    /\ game_state = GAME_START
    /\ \E r1 \in RandDraws, r2 \in RandDraws, r3 \in RandDraws, r4 \in RandDraws :
         number_grid' =
            add_random_block(add_random_block(ZeroGrid, r1, r2), r3, r4)
    /\ current_score' = 0
    /\ game_timer' = timer_inc(0)
    /\ game_state' = GAME_INPUT
    /\ ch' = NoPoll /\ rt' = 0 /\ op' = "game_step"
    /\ Remember /\ ConsoleFrame
    /\ UNCHANGED <<animated_blocks, animated_background, high_score,
                   winning_tile, calls, moves, games>>

EnterGame ==
    /\ game_state = ENTER_GAME
    /\ game_timer' = timer_inc(game_timer)
    /\ game_state' = GAME_INPUT
    /\ ch' = NoPoll /\ rt' = 0 /\ op' = "game_step"
    /\ Remember /\ ConsoleFrame /\ GameFrame
    /\ UNCHANGED <<calls, moves, games>>

\* GAME_INPUT with a move key.
GameInputMove ==
    /\ game_state = GAME_INPUT
    /\ \E key \in MoveKeys :
         LET r == shift_for_key(key, Globals)
         IN  /\ r.rt # 0 => moves < MaxMoves
             /\ ch' = key
             /\ rt' = r.rt
             /\ op' = shift_name(key)
             /\ number_grid' = r.grid
             /\ animated_blocks' = r.anims
             /\ animated_background' = r.bg
             /\ current_score' = r.current_score
             /\ high_score' = r.high_score
             /\ game_state' = state_after_shift(r.rt)
             /\ moves' = IF r.rt # 0 THEN moves + 1 ELSE moves
    /\ game_timer' = timer_inc(game_timer)
    /\ Remember /\ ConsoleFrame
    /\ UNCHANGED <<winning_tile, calls, games>>

\* GAME_INPUT with any other key, or none.
GameInputOther ==
    /\ game_state = GAME_INPUT
    /\ \E key \in KeysAt(game_state) \ MoveKeys :
         /\ ch' = key
         /\ game_state' = IF key \in QuitKeys THEN ENTER_TITLE_SCREEN
                          ELSE game_state
    /\ game_timer' = timer_inc(game_timer)
    /\ rt' = 0 /\ op' = "game_step"
    /\ Remember /\ ConsoleFrame /\ GameFrame
    /\ UNCHANGED <<calls, moves, games>>

ShiftingBlocks ==
    /\ game_state = SHIFTING_BLOCKS
    /\ game_timer' = timer_inc(game_timer)
    /\ IF game_timer' % ANIM_SLOW_DOWN = 0
       THEN LET r == step_moving_blocks(animated_blocks)
            IN  /\ animated_blocks' = r.anims
                /\ game_state' = IF r.something_moved = 0
                                 THEN DONE_SHIFTING_BLOCKS ELSE game_state
                /\ rt' = r.something_moved
       ELSE UNCHANGED <<animated_blocks, game_state>> /\ rt' = 0
    /\ ch' = NoPoll /\ op' = "step_moving_blocks"
    /\ Remember /\ ConsoleFrame
    /\ UNCHANGED <<number_grid, animated_background, current_score,
                   high_score, winning_tile, calls, moves, games>>

DoneShiftingBlocks ==
    /\ game_state = DONE_SHIFTING_BLOCKS
    /\ game_timer' = timer_inc(game_timer)
    /\ animated_blocks' = reset_blocks(animated_blocks)
    /\ IF is_game_won(number_grid, winning_tile) # 0
       THEN /\ game_state' = GAME_VICTORY
            /\ op' = "game_step"
            /\ UNCHANGED number_grid
       ELSE \E r1 \in RandDraws, r2 \in RandDraws :
              /\ number_grid' = add_random_block(number_grid, r1, r2)
              /\ op' = "add_random_block"
              /\ game_state' = IF is_game_lost(number_grid') # 0
                               THEN GAME_DEFEAT ELSE ENTER_GAME
    /\ ch' = NoPoll /\ rt' = 0
    /\ Remember /\ ConsoleFrame
    /\ UNCHANGED <<animated_background, current_score, high_score,
                   winning_tile, calls, moves, games>>

\* The state main() leaves before its first game_step (lines 1232-1248).
Init ==
    /\ game_state = ENTER_TITLE_SCREEN
    /\ number_grid = ZeroGrid
    /\ animated_blocks = DeadPool
    /\ animated_background = ZeroGrid
    /\ current_score = 0
    /\ high_score = 0
    /\ winning_tile = 0
    /\ game_timer = 0
    /\ ch = NoPoll /\ rt = 0 /\ op = "init"
    /\ old_state = ENTER_TITLE_SCREEN
    /\ old_grid = ZeroGrid
    /\ old_score = 0
    /\ old_high = 0
    /\ calls = 0
    /\ moves = 0
    /\ games = 0
    /\ console = back_console
    /\ old_console = back_console
    /\ touched = {}
    /\ args = <<>>

Next ==
    \/ EnterScreen
    \/ TitleInput
    \/ QuitOnlyInput
    \/ DifficultyInput
    \/ GameStart
    \/ EnterGame
    \/ GameInputMove
    \/ GameInputOther
    \/ ShiftingBlocks
    \/ DoneShiftingBlocks

Spec == Init /\ [][Next]_vars

\* main() calls game_step again after every nanosleep, forever (lines
\* 1251-1254): a step that stays possible is eventually taken.
SpecLive == Init /\ [][Next]_vars /\ WF_vars(ShiftingBlocks)

(***************************************************************************)
(* SpecGrid: the grid functions applied directly to input grids.  Every    *)
(* input grid is a grid GAME_INPUT can hold; as in GAME_INPUT, every slot  *)
(* of the pool is DEAD when a shift is called (DONE_SHIFTING_BLOCKS reset  *)
(* them), so each call starts from reset_blocks.                           *)
(***************************************************************************)
RECURSIVE Pow2(_)
Pow2(e) == IF e = 0 THEN 1 ELSE 2 * Pow2(e - 1)

TileVals == {Pow2(e) : e \in 1 .. MaxExp}
CellVals == {0} \cup TileVals
Rows == [Idx -> CellVals]

OneRowGrids ==
    {[ii \in Idx |-> IF ii = i THEN r ELSE [jj \in Idx |-> 0]] :
        i \in Idx, r \in Rows}
OneColGrids == {transpose(g) : g \in OneRowGrids}
CirculantGrids ==
    {[ii \in Idx |-> [jj \in Idx |-> r[(ii + jj) % GRID_SIZE]]] : r \in Rows}
TwoTileGrids ==
    {[[ZeroGrid EXCEPT ![p[1]][p[2]] = v] EXCEPT ![q[1]][q[2]] = w] :
        p \in Idx \X Idx, q \in Idx \X Idx, v \in TileVals, w \in TileVals}
\* Full grids with no two equal neighbours.
CheckerGrids ==
    {[ii \in Idx |-> [jj \in Idx |-> IF (ii + jj) % 2 = 0 THEN a ELSE b]] :
        a \in TileVals, b \in TileVals} \ {g \in [Idx -> Rows] : g[0][0] = g[0][1]}
RECURSIVE EditedGrids(_, _)
EditedGrids(S, n) ==
    IF n = 0 THEN S
    ELSE EditedGrids(S \cup {[g EXCEPT ![p[1]][p[2]] = v] :
                                g \in S, p \in Idx \X Idx, v \in CellVals},
                     n - 1)
InputGrids ==
    OneRowGrids \cup OneColGrids \cup CirculantGrids \cup TwoTileGrids
        \cup EditedGrids(CheckerGrids, MaxEdits)

\* Values of rand() giving every result rand() % 2 and rand() % count can
\* have on a grid of NUM_CELLS cells.
ParityDraws == {0, 1}
AllDraws == 0 .. (NUM_CELLS - 1)

ShiftNames == {"shift_left", "shift_right", "shift_up", "shift_down"}

InitGrid ==
    /\ game_state = GAME_INPUT
    /\ number_grid \in InputGrids
    /\ animated_blocks = DeadPool
    /\ animated_background = ZeroGrid
    /\ current_score = 0
    /\ high_score = 0
    /\ winning_tile = difficulty_tile("9")
    /\ game_timer = 0
    /\ ch = NoPoll /\ rt = 0 /\ op = "init"
    /\ old_state = GAME_INPUT
    /\ old_grid = number_grid
    /\ old_score = 0
    /\ old_high = 0
    /\ calls = 0
    /\ moves = 0
    /\ games = 0
    /\ console = back_console
    /\ old_console = back_console
    /\ touched = {}
    /\ args = <<>>

\* A shift is applied to the input grid, or again after the same shift;
\* the other functions are applied to the input grid.
MayShift(name) == calls < MaxCalls /\ (op = "init" \/ op = name)
MayCall == calls < MaxCalls /\ op = "init"

CallShift(name, r) ==
    /\ op' = name
    /\ rt' = r.rt
    /\ number_grid' = r.grid
    /\ animated_blocks' = r.anims
    /\ animated_background' = r.bg
    /\ current_score' = r.current_score
    /\ high_score' = r.high_score
    /\ calls' = calls + 1
    /\ touched' = r.accessed
    /\ Remember
    /\ UNCHANGED <<console, old_console, args>>
    /\ UNCHANGED <<game_state, winning_tile, game_timer, ch, moves, games>>

FreshGlobals == [Globals EXCEPT !.anims = reset_blocks(@)]

CallShiftLeft ==
    MayShift("shift_left") /\ CallShift("shift_left", shift_left(FreshGlobals))
CallShiftRight ==
    MayShift("shift_right") /\ CallShift("shift_right", shift_right(FreshGlobals))
CallShiftUp ==
    MayShift("shift_up") /\ CallShift("shift_up", shift_up(FreshGlobals))
CallShiftDown ==
    MayShift("shift_down") /\ CallShift("shift_down", shift_down(FreshGlobals))

CallAddRandomBlock ==
    /\ MayCall
    /\ \E r1 \in ParityDraws, r2 \in AllDraws :
         number_grid' = add_random_block(number_grid, r1, r2)
    /\ op' = "add_random_block"
    /\ rt' = 0
    /\ calls' = calls + 1
    /\ Remember /\ ConsoleFrame
    /\ UNCHANGED <<game_state, animated_blocks, animated_background,
                   current_score, high_score, winning_tile, game_timer, ch,
                   moves, games>>

CallIsGameLost ==
    /\ MayCall
    /\ op' = "is_game_lost"
    /\ rt' = is_game_lost(number_grid)
    /\ calls' = calls + 1
    /\ Remember /\ ConsoleFrame
    /\ UNCHANGED <<game_state, number_grid, animated_blocks,
                   animated_background, current_score, high_score,
                   winning_tile, game_timer, ch, moves, games>>

NextGrid ==
    \/ CallShiftLeft
    \/ CallShiftRight
    \/ CallShiftUp
    \/ CallShiftDown
    \/ CallAddRandomBlock
    \/ CallIsGameLost

SpecGrid == InitGrid /\ [][NextGrid]_vars

(***************************************************************************)
(* SpecPlay: game_step started in the middle of a game.  A defeat needs a  *)
(* full board, more moves away from main() than the move budget allows, so *)
(* this specification starts in GAME_INPUT on boards a game in progress    *)
(* can hold: no cell holds the winning tile (the game would have ended),   *)
(* the board is not lost, every slot of the pool is DEAD (as               *)
(* DONE_SHIFTING_BLOCKS left it), the score is what building every tile    *)
(* from inserted 2s scores, and the high score is that score or the higher *)
(* score of an earlier game.  Each start has either the move budget or the *)
(* new-game budget, not both.                                              *)
(***************************************************************************)
GridOfRows(rows) == [ii \in Idx |-> [jj \in Idx |-> rows[ii + 1][jj + 1]]]

\* One hole; shifting the top row left and inserting a 2 leaves no move.
NearDefeatGrid ==
    GridOfRows(<< <<0, 2, 4, 8>>, <<4, 8, 2, 4>>,
                  <<2, 4, 8, 2>>, <<4, 8, 2, 4>> >>)
\* Full; shifting the top row left makes the winning tile.
NearVictoryGrid ==
    GridOfRows(<< <<8, 8, 2, 4>>, <<2, 4, 8, 2>>,
                  <<4, 8, 2, 4>>, <<2, 4, 8, 2>> >>)
\* Two tiles that only slide.
SparseGrid ==
    GridOfRows(<< <<0, 0, 2, 0>>, <<0, 0, 0, 0>>,
                  <<0, 4, 0, 0>>, <<0, 0, 0, 0>> >>)
\* Merges that do not win.
MergeGrid ==
    GridOfRows(<< <<2, 2, 4, 4>>, <<0, 0, 0, 0>>,
                  <<0, 0, 0, 0>>, <<4, 0, 0, 4>> >>)

\* The boards above in every orientation.
Orientations(g) == {g, rot_left(g), rot_left(rot_left(g)), rot_right(g)}

PlayGrids ==
    UNION {Orientations(g) :
              g \in {NearDefeatGrid, NearVictoryGrid, SparseGrid, MergeGrid}}

\* What a tile scored while it was built from inserted 2s.
RECURSIVE TileScore(_)
TileScore(v) == IF v <= 2 THEN 0 ELSE v + 2 * TileScore(v \div 2)

RECURSIVE ScoreFrom(_, _)
ScoreFrom(grid, k) ==
    IF k = NUM_CELLS THEN 0
    ELSE TileScore(grid[k \div GRID_SIZE][k % GRID_SIZE]) + ScoreFrom(grid, k + 1)

BoardScore(grid) == ScoreFrom(grid, 0)

PlayTile == difficulty_tile("2")

InitPlay ==
    /\ game_state = GAME_INPUT
    /\ number_grid \in PlayGrids
    /\ animated_blocks = DeadPool
    /\ animated_background = ZeroGrid
    /\ current_score = BoardScore(number_grid)
    /\ high_score \in {current_score, current_score + PlayTile}
    /\ winning_tile = PlayTile
    /\ game_timer = 0
    /\ ch = NoPoll /\ rt = 0 /\ op = "init"
    /\ old_state = GAME_INPUT
    /\ old_grid = number_grid
    /\ old_score = current_score
    /\ old_high = high_score
    /\ calls = 0
    /\ \E budget \in {<<0, MaxGames>>, <<MaxMoves, 0>>} :
         moves = budget[1] /\ games = budget[2]
    /\ console = back_console
    /\ old_console = back_console
    /\ touched = {}
    /\ args = <<>>

SpecPlay == InitPlay /\ [][Next]_vars

(***************************************************************************)
(* SpecPool: add_animation and the four shifts applied to animation pools  *)
(* that hold slots already in use: the first n slots MOVING or IDLE at     *)
(* their destination, with or without a DEAD slot among them.  The pools   *)
(* with no DEAD slot are the arguments add_animation drops an animation    *)
(* for; game_step itself only shifts with every slot DEAD.                 *)
(***************************************************************************)
UsedBlock(ii, state) ==
    [state |-> state,
     cur_row |-> CONSOLE_ROW(ii % GRID_SIZE),
     cur_col |-> CONSOLE_COL(ii \div GRID_SIZE),
     dest_row |-> CONSOLE_ROW(ii % GRID_SIZE),
     dest_col |-> CONSOLE_COL(ii \div GRID_SIZE),
     moving_value |-> 2, idle_value |-> 4]

\* The first n slots in use, slot hole (if below n) DEAD; kind selects the
\* states: all IDLE, all MOVING, or alternating.
UsedPool(n, hole, kind) ==
    [ii \in Slots |->
        IF ii >= n \/ ii = hole THEN DeadBlock
        ELSE UsedBlock(ii, CASE kind = "idle" -> ANI_BLOCK_IDLE
                             [] kind = "moving" -> ANI_BLOCK_MOVING
                             [] kind = "mixed" ->
                                  IF ii % 2 = 0 THEN ANI_BLOCK_IDLE
                                  ELSE ANI_BLOCK_MOVING)]

PoolKinds == {"idle", "moving", "mixed"}
PoolFills == {0, 1, MAX_ANIMATIONS - 1, MAX_ANIMATIONS}
PoolHoles == {2, MAX_ANIMATIONS}
TestPools ==
    {UsedPool(n, hole, kind) : n \in PoolFills, hole \in PoolHoles,
                               kind \in PoolKinds}

PoolGrids ==
    {MergeGrid, SparseGrid, rot_left(MergeGrid), rot_right(SparseGrid),
     GridOfRows(<< <<2, 2, 4, 0>>, <<0, 0, 0, 0>>, <<0, 0, 0, 0>>,
                   <<0, 0, 0, 0>> >>)}

\* The arguments of a direct add_animation call: a slide and a merge.
AnimationArgs == {<<0, 3, 0, 0, 8, 8>>, <<2, 1, 2, 0, 8, 16>>}

InitPool ==
    /\ game_state = GAME_INPUT
    /\ number_grid \in PoolGrids
    /\ animated_blocks \in TestPools
    /\ animated_background = ZeroGrid
    /\ current_score = 0
    /\ high_score = 0
    /\ winning_tile = difficulty_tile("9")
    /\ game_timer = 0
    /\ ch = NoPoll /\ rt = 0 /\ op = "init"
    /\ old_state = GAME_INPUT
    /\ old_grid = number_grid
    /\ old_score = 0
    /\ old_high = 0
    /\ calls = 0
    /\ moves = 0
    /\ games = 0
    /\ console = back_console
    /\ old_console = back_console
    /\ touched = {}
    /\ args = <<>>

MayCallPool == calls < MaxCalls

CallAddAnimation ==
    /\ MayCallPool
    /\ \E a \in AnimationArgs :
          /\ animated_blocks' =
                add_animation(animated_blocks, a[1], a[2], a[3], a[4], a[5], a[6])
          /\ args' = a
    /\ op' = "add_animation"
    /\ rt' = 0
    /\ calls' = calls + 1
    /\ Remember
    /\ UNCHANGED <<game_state, number_grid, animated_background,
                   current_score, high_score, winning_tile, game_timer, ch,
                   moves, games, console, old_console, touched>>

\* A shift called on the pool as it is.
CallShiftOnPool ==
    /\ MayCallPool
    /\ \E name \in ShiftNames :
          LET r == CASE name = "shift_left" -> shift_left(Globals)
                     [] name = "shift_right" -> shift_right(Globals)
                     [] name = "shift_up" -> shift_up(Globals)
                     [] name = "shift_down" -> shift_down(Globals)
          IN  /\ op' = name
              /\ rt' = r.rt
              /\ number_grid' = r.grid
              /\ animated_blocks' = r.anims
              /\ animated_background' = r.bg
              /\ current_score' = r.current_score
              /\ high_score' = r.high_score
    /\ calls' = calls + 1
    /\ Remember /\ ConsoleFrame
    /\ UNCHANGED <<game_state, winning_tile, game_timer, ch, moves, games>>

NextPool ==
    \/ CallAddAnimation
    \/ CallShiftOnPool

SpecPool == InitPool /\ [][NextPool]_vars

(***************************************************************************)
(* SpecConsole: the console functions applied to consoles of every width   *)
(* and height up to MaxDim, with the cursor on any cell and every cell     *)
(* holding its own character and colour.  The game does not run.           *)
(***************************************************************************)
TestConsole(w, h, r, c) ==
    [width |-> w, height |-> h, row |-> r, col |-> c,
     clear_color |-> 16, term_color |-> 7,
     cells |-> [k \in 0 .. (2 * w * h - 1) |->
                   IF k % 2 = 0 THEN 65 + (k \div 2) ELSE 33 + (k \div 2)]]

\* Ordinary bytes, strings, and what a read outside the buffer can give.
OrdinaryBytes == {120, 121}
TestBytes == OrdinaryBytes \cup {BACKSPACE, NEWLINE, RETURN}
TestString == <<120, NEWLINE, 121, BACKSPACE, RETURN, 120>>
TestStrings == {SubSeq(TestString, 1, n) : n \in 0 .. Len(TestString)}
BeyondBytes == {0, 90}
\* A character and a colour: valid ones, then one of them out of range.
DrawArgs == {<<200, 16>>, <<120, 7>>, <<256, 7>>, <<-1, 7>>, <<120, 256>>}
\* Cells at the corners, and positions just outside each edge.
Probes(con) ==
    {<<0, 0>>, <<con.height - 1, con.width - 1>>, <<con.height - 1, 0>>,
     <<-1, 0>>, <<0, -1>>, <<con.height, 0>>, <<0, con.width>>}

InitConsole ==
    /\ game_state = ENTER_TITLE_SCREEN
    /\ number_grid = ZeroGrid
    /\ animated_blocks = DeadPool
    /\ animated_background = ZeroGrid
    /\ current_score = 0
    /\ high_score = 0
    /\ winning_tile = 0
    /\ game_timer = 0
    /\ ch = NoPoll /\ rt = 0 /\ op = "init"
    /\ old_state = ENTER_TITLE_SCREEN
    /\ old_grid = ZeroGrid
    /\ old_score = 0
    /\ old_high = 0
    /\ calls = 0
    /\ moves = 0
    /\ games = 0
    /\ \E w \in 1 .. MaxDim, h \in 1 .. MaxDim :
         \E r \in 0 .. (h - 1), c \in 0 .. (w - 1) :
            console = TestConsole(w, h, r, c)
    /\ old_console = console
    /\ touched = {}
    /\ args = <<>>

GameIdle ==
    UNCHANGED <<game_state, number_grid, animated_blocks, animated_background,
                current_score, high_score, winning_tile, game_timer, ch,
                old_state, old_grid, old_score, old_high, moves, games>>

\* One console call: name, the memory record it leaves, the value returned.
MayCallConsole == calls < MaxConsoleCalls

ConsoleCall(name, a, m, value) ==
    /\ op' = name
    /\ args' = a
    /\ console' = m.con
    /\ touched' = m.touched
    /\ rt' = value
    /\ old_console' = console
    /\ calls' = calls + 1
    /\ GameIdle

Mem == [con |-> console, touched |-> {}]

CallPutbyte ==
    /\ MayCallConsole
    /\ \E byte \in TestBytes, beyond \in BeyondBytes :
             ConsoleCall("console_putbyte", <<byte>>,
                         console_putbyte(Mem, byte, beyond), byte)

CallPutbytes ==
    /\ MayCallConsole
    /\ \E len \in -1 .. Len(TestString), beyond \in BeyondBytes :
             ConsoleCall("console_putbytes", <<TestString, len>>,
                         console_putbytes(Mem, TestString, len, beyond), len)

CallPutstr ==
    /\ MayCallConsole
    /\ \E s \in TestStrings, beyond \in BeyondBytes :
             ConsoleCall("console_putstr", <<s>>, console_putstr(Mem, s, beyond),
                         Len(s))

CallClear ==
    /\ MayCallConsole
    /\ ConsoleCall("console_clear", <<>>, console_clear(Mem), 0)

CallDrawChar ==
    /\ MayCallConsole
    /\ \E p \in Probes(console), a \in DrawArgs :
             ConsoleCall("console_draw_char", <<p[1], p[2], a[1], a[2]>>,
                         console_draw_char(Mem, p[1], p[2], a[1], a[2]), 0)

CallGetChar ==
    /\ MayCallConsole
    /\ \E p \in Probes(console) :
             LET r == console_get_char(Mem, p[1], p[2])
             IN  ConsoleCall("console_get_char", p, r.m, r.rt)

CallGet ==
    /\ MayCallConsole
    /\ \E p \in Probes(console), undefined \in BeyondBytes :
             LET r == console_get(Mem, p[1], p[2], undefined)
             IN  ConsoleCall("console_get", p, r.m, r.rt)

CallSetCursor ==
    /\ MayCallConsole
    /\ \E p \in Probes(console) :
             LET r == console_set_cursor(console, p[1], p[2])
             IN  ConsoleCall("console_set_cursor", p, [Mem EXCEPT !.con = r.con],
                             r.rt)

\* scroll_by_one called on its own, as console_putbyte calls it.
CallScroll ==
    /\ MayCallConsole
    /\ \E beyond \in BeyondBytes :
             ConsoleCall("scroll_by_one", <<>>, scroll_by_one(Mem, beyond), 0)

NextConsole ==
    \/ CallScroll
    \/ CallPutbyte
    \/ CallPutbytes
    \/ CallPutstr
    \/ CallClear
    \/ CallDrawChar
    \/ CallGetChar
    \/ CallGet
    \/ CallSetCursor

SpecConsole == InitConsole /\ [][NextConsole]_vars

(***************************************************************************)
(* Reference definitions the claims are stated with: the 2048 rules on one *)
(* line of tiles, written without the code's two indices.                  *)
(***************************************************************************)
NonZero(line) == SelectSeq(line, LAMBDA v : v # 0)

\* Merge equal neighbours of a packed line left to right, each tile once.
RECURSIVE RefMerge(_)
RefMerge(p) ==
    IF Len(p) = 0 THEN <<>>
    ELSE IF Len(p) >= 2 /\ p[1] = p[2]
    THEN <<2 * p[1]>> \o RefMerge(SubSeq(p, 3, Len(p)))
    ELSE <<p[1]>> \o RefMerge(Tail(p))

\* The sum of the doubled values of those merges.
RECURSIVE RefGain(_)
RefGain(p) ==
    IF Len(p) = 0 THEN 0
    ELSE IF Len(p) >= 2 /\ p[1] = p[2]
    THEN 2 * p[1] + RefGain(SubSeq(p, 3, Len(p)))
    ELSE RefGain(Tail(p))

RefShiftLine(line) ==
    LET m == RefMerge(NonZero(line))
    IN  [k \in 1 .. GRID_SIZE |-> IF k <= Len(m) THEN m[k] ELSE 0]

\* The line of tiles number k (0-based) as seen from the edge a shift moves
\* toward: position 1 is the cell at that edge.
LineToward(name, grid, k) ==
    CASE name = "shift_left" -> [n \in 1 .. GRID_SIZE |-> grid[k][n - 1]]
      [] name = "shift_right" -> [n \in 1 .. GRID_SIZE |-> grid[k][GRID_SIZE - n]]
      [] name = "shift_up" -> [n \in 1 .. GRID_SIZE |-> grid[n - 1][k]]
      [] name = "shift_down" -> [n \in 1 .. GRID_SIZE |-> grid[GRID_SIZE - n][k]]

RefShift(name, grid) ==
    [ii \in Idx |-> [jj \in Idx |->
        CASE name = "shift_left" ->
               RefShiftLine(LineToward(name, grid, ii))[jj + 1]
          [] name = "shift_right" ->
               RefShiftLine(LineToward(name, grid, ii))[GRID_SIZE - jj]
          [] name = "shift_up" ->
               RefShiftLine(LineToward(name, grid, jj))[ii + 1]
          [] name = "shift_down" ->
               RefShiftLine(LineToward(name, grid, jj))[GRID_SIZE - ii]]]

RECURSIVE RefGainFrom(_, _, _)
RefGainFrom(name, grid, k) ==
    IF k >= GRID_SIZE THEN 0
    ELSE RefGain(NonZero(LineToward(name, grid, k)))
            + RefGainFrom(name, grid, k + 1)
RefScoreGain(name, grid) == RefGainFrom(name, grid, 0)

RECURSIVE SumFrom(_, _)
SumFrom(grid, k) ==
    IF k >= GRID_SIZE * GRID_SIZE THEN 0
    ELSE grid[k \div GRID_SIZE][k % GRID_SIZE] + SumFrom(grid, k + 1)
TileSum(grid) == SumFrom(grid, 0)

IsPow2(n) == \E e \in 0 .. 20 : n = Pow2(e)

RowIs(grid, ii, a, b, c, d) ==
    grid[ii][0] = a /\ grid[ii][1] = b /\ grid[ii][2] = c /\ grid[ii][3] = d

\* The slots a shift left MOVING whose tile merges into another.
MergeSlots ==
    {ii \in Slots : /\ animated_blocks[ii].state = ANI_BLOCK_MOVING
                    /\ animated_blocks[ii].idle_value
                         # animated_blocks[ii].moving_value}

(***************************************************************************)
(* C1.  shift_left (shift_grid_left on number_grid) leaves every row equal *)
(* to the reference 2048 left shift of that row: tiles packed left in      *)
(* order, equal neighbours merged left to right, a merged tile never       *)
(* merged again in the same pass.                                          *)
(***************************************************************************)
C1_ShiftLeftIsReference ==
    op = "shift_left" => number_grid = RefShift("shift_left", old_grid)

\* [2,2,4,0] became [4,4,0,0], not [8,0,0,0].
C1_Witness ==
    /\ op = "shift_left"
    /\ RowIs(old_grid, 0, 2, 2, 4, 0)
    /\ RowIs(number_grid, 0, 4, 4, 0, 0)

C3_Original_SecondShiftIsNoOp ==
    (op = "shift_left" /\ calls >= 2) => (rt = 0 /\ number_grid = old_grid)

(***************************************************************************)
(* C3, amended.  When the earlier applications merged nothing (the score   *)
(* is still the initial 0 before this application), a further shift_left   *)
(* returns 0 and leaves the grid unchanged.                                *)
(***************************************************************************)
C3_SecondShiftAfterSlideOnly ==
    (op = "shift_left" /\ calls >= 2 /\ old_score = 0) =>
        (rt = 0 /\ number_grid = old_grid)

\* The first application slid a tile (slot 0 still holds its record), the
\* second found nothing to do.
C3_Witness ==
    /\ op = "shift_left" /\ calls = 2 /\ old_score = 0
    /\ animated_blocks[0].moving_value # 0
    /\ animated_blocks[0].state = ANI_BLOCK_DEAD
    /\ rt = 0

(***************************************************************************)
(* C4.  As claimed: the tile sum after a shift is the tile sum before plus *)
(* the score increase.                                                     *)
(***************************************************************************)
C4_Original_SumGrowsByScore ==
    op \in ShiftNames =>
        TileSum(number_grid) = TileSum(old_grid) + (current_score - old_score)

(***************************************************************************)
(* C4, amended.  Every shift conserves the tile sum: the sum of all tile   *)
(* values after the shift equals the sum before it, whatever the score     *)
(* increase.                                                               *)
(***************************************************************************)
C4_SumConserved ==
    op \in ShiftNames => TileSum(number_grid) = TileSum(old_grid)

C4_Witness ==
    /\ op \in ShiftNames
    /\ current_score > old_score
    /\ TileSum(number_grid) = TileSum(old_grid)
    /\ TileSum(old_grid) > 0

C6_ScoreGrowsByMerges ==
    op \in ShiftNames =>
        /\ current_score = old_score + RefScoreGain(op, old_grid)
        /\ MergeSlots = {} => current_score = old_score

\* A shift applied at a non-zero score that merged two pairs.
C6_Witness ==
    /\ op \in ShiftNames
    /\ old_score > 0
    /\ Cardinality(MergeSlots) >= 2
    /\ current_score > old_score

(***************************************************************************)
(* C7.  In every reachable state of the game every non-zero cell of        *)
(* number_grid is a power of two that is at least 2.                       *)
(***************************************************************************)
C7_TilesArePowersOfTwo ==
    \A ii \in Idx, jj \in Idx :
        number_grid[ii][jj] # 0 =>
            (IsPow2(number_grid[ii][jj]) /\ number_grid[ii][jj] >= 2)

\* A tile made by a merge of two inserted 4s, during the animation.
C7_Witness ==
    /\ game_state = SHIFTING_BLOCKS
    /\ \E ii \in Idx, jj \in Idx : number_grid[ii][jj] = 8

(***************************************************************************)
(* C8.  is_game_lost returns 1 exactly when no cell is empty and no two    *)
(* horizontally or vertically adjacent cells hold the same value.          *)
(***************************************************************************)
NoEmptyCell(grid) == \A ii \in Idx, jj \in Idx : grid[ii][jj] # 0
NoEqualNeighbours(grid) ==
    \A ii \in Idx, jj \in Idx :
        /\ jj + 1 < GRID_SIZE => grid[ii][jj] # grid[ii][jj + 1]
        /\ ii + 1 < GRID_SIZE => grid[ii][jj] # grid[ii + 1][jj]

C8_LostIffStuck ==
    op = "is_game_lost" =>
        /\ rt \in {0, 1}
        /\ rt = 1 <=> (NoEmptyCell(number_grid) /\ NoEqualNeighbours(number_grid))

\* A full grid with no equal neighbours was reported lost.
C8_Witness ==
    /\ op = "is_game_lost"
    /\ rt = 1
    /\ NoEmptyCell(number_grid)

(***************************************************************************)
(* C9.  add_random_block on a grid with an empty cell changes exactly one  *)
(* cell, from 0 to 2 or 4; on a full grid it changes nothing.              *)
(***************************************************************************)
ChangedCells ==
    {p \in Idx \X Idx : number_grid[p[1]][p[2]] # old_grid[p[1]][p[2]]}

C9_OneEmptyCellFilled ==
    op = "add_random_block" =>
        IF NoEmptyCell(old_grid) THEN number_grid = old_grid
        ELSE /\ Cardinality(ChangedCells) = 1
             /\ \A p \in ChangedCells :
                  /\ old_grid[p[1]][p[2]] = 0
                  /\ number_grid[p[1]][p[2]] \in {2, 4}

\* The last empty cell of the grid received a 4.
C9_Witness ==
    /\ op = "add_random_block"
    /\ NoEmptyCell(number_grid)
    /\ \E p \in ChangedCells : number_grid[p[1]][p[2]] = 4

(***************************************************************************)
(* C10.  In GAME_INPUT a move key whose shift reports a change moves the   *)
(* state to SHIFTING_BLOCKS in that step; one whose shift reports no       *)
(* change leaves the state in GAME_INPUT with the grid and score as they   *)
(* were and no slot MOVING.  SHIFTING_BLOCKS is entered only that way, and *)
(* DONE_SHIFTING_BLOCKS (where a tile is inserted) only from it.           *)
(***************************************************************************)
C10_MoveKeyStartsAnimationIffChanged ==
    /\ (old_state = GAME_INPUT /\ ch \in MoveKeys) =>
         /\ rt # 0 => game_state = SHIFTING_BLOCKS
         /\ rt = 0 =>
              /\ game_state = GAME_INPUT
              /\ number_grid = old_grid
              /\ current_score = old_score
              /\ \A ii \in Slots : animated_blocks[ii].state = ANI_BLOCK_DEAD
    /\ (game_state = SHIFTING_BLOCKS /\ old_state # SHIFTING_BLOCKS) =>
         (old_state = GAME_INPUT /\ ch \in MoveKeys /\ rt # 0)
    /\ game_state = DONE_SHIFTING_BLOCKS => old_state = SHIFTING_BLOCKS
    /\ op = "add_random_block" =>
         old_state \in {DONE_SHIFTING_BLOCKS}

\* A move key that moved nothing on a grid holding tiles.
C10_Witness ==
    /\ old_state = GAME_INPUT
    /\ ch \in MoveKeys
    /\ rt = 0
    /\ game_state = GAME_INPUT
    /\ \E ii \in Idx, jj \in Idx : number_grid[ii][jj] # 0

(***************************************************************************)
(* C11.  As claimed: every step taken in DONE_SHIFTING_BLOCKS leaves all   *)
(* slots DEAD and has inserted one random tile (one empty cell became 2 or *)
(* 4), on every path out of the state, the path to GAME_VICTORY included.  *)
(***************************************************************************)
C11_Original_DoneAlwaysInserts ==
    old_state = DONE_SHIFTING_BLOCKS =>
        /\ \A ii \in Slots : animated_blocks[ii].state = ANI_BLOCK_DEAD
        /\ Cardinality(ChangedCells) = 1
        /\ \A p \in ChangedCells :
             /\ old_grid[p[1]][p[2]] = 0
             /\ number_grid[p[1]][p[2]] \in {2, 4}

(***************************************************************************)
(* C12.  After a step taken in DONE_SHIFTING_BLOCKS the state is           *)
(* GAME_VICTORY if some cell held the winning tile, otherwise GAME_DEFEAT  *)
(* if the grid after the insertion has no empty cell and no equal          *)
(* neighbours, otherwise ENTER_GAME.                                       *)
(***************************************************************************)
HoldsTile(grid, tile) == \E ii \in Idx, jj \in Idx : grid[ii][jj] = tile

C12_DoneSuccessor ==
    old_state = DONE_SHIFTING_BLOCKS =>
        game_state =
            IF HoldsTile(old_grid, winning_tile) THEN GAME_VICTORY
            ELSE IF NoEmptyCell(number_grid) /\ NoEqualNeighbours(number_grid)
            THEN GAME_DEFEAT
            ELSE ENTER_GAME

\* The insertion filled the last hole of a board with no equal neighbours.
C12_Witness ==
    /\ old_state = DONE_SHIFTING_BLOCKS
    /\ game_state = GAME_DEFEAT
    /\ ~HoldsTile(number_grid, winning_tile)
    /\ number_grid # old_grid

(***************************************************************************)
(* C13.  Once in SHIFTING_BLOCKS, steps alone (no key is polled) lead to   *)
(* DONE_SHIFTING_BLOCKS: on each step every MOVING slot away from its      *)
(* destination stays MOVING and gets strictly closer, every MOVING slot at *)
(* its destination becomes IDLE, and the largest distance left shrinks     *)
(* until it is 0, when the step moves on to DONE_SHIFTING_BLOCKS; so the   *)
(* phase lasts at most the largest initial distance plus one steps.        *)
(***************************************************************************)
AbsDiff(a, b) == IF a < b THEN b - a ELSE a - b

Dist(cur) ==
    LET dr == AbsDiff(cur.cur_row, cur.dest_row)
        dc == AbsDiff(cur.cur_col, cur.dest_col)
    IN  IF dr < dc THEN dc ELSE dr

MaxDist(anims) ==
    LET ds == {Dist(anims[ii]) :
                  ii \in {jj \in Slots : anims[jj].state = ANI_BLOCK_MOVING}}
    IN  IF ds = {} THEN 0 ELSE CHOOSE d \in ds : \A e \in ds : e <= d

ShiftingStepShrinks ==
    game_state = SHIFTING_BLOCKS =>
        /\ ch' = NoPoll
        /\ \A ii \in Slots :
             animated_blocks[ii].state = ANI_BLOCK_MOVING =>
                IF Dist(animated_blocks[ii]) > 0
                THEN /\ animated_blocks'[ii].state = ANI_BLOCK_MOVING
                     /\ Dist(animated_blocks'[ii]) < Dist(animated_blocks[ii])
                ELSE animated_blocks'[ii].state = ANI_BLOCK_IDLE
        /\ IF MaxDist(animated_blocks) > 0
           THEN /\ game_state' = SHIFTING_BLOCKS
                /\ MaxDist(animated_blocks') < MaxDist(animated_blocks)
           ELSE game_state' = DONE_SHIFTING_BLOCKS

C13_AnimationEnds ==
    /\ [][ShiftingStepShrinks]_vars
    /\ (game_state = SHIFTING_BLOCKS) ~> (game_state = DONE_SHIFTING_BLOCKS)

\* The animation of a move has just ended with a slot at rest.
C13_Witness ==
    /\ game_state = DONE_SHIFTING_BLOCKS
    /\ old_state = SHIFTING_BLOCKS
    /\ \E ii \in Slots :
         /\ animated_blocks[ii].state = ANI_BLOCK_IDLE
         /\ Dist(animated_blocks[ii]) = 0

(***************************************************************************)
(* C14.  One step that starts in GAME_START ends in GAME_INPUT (it falls   *)
(* through ENTER_GAME) with current_score 0, exactly two non-zero tiles in *)
(* the grid, each 2 or 4, and high_score as it was before the step.        *)
(***************************************************************************)
TileCells(grid) == {p \in Idx \X Idx : grid[p[1]][p[2]] # 0}

C14_GameStartStep ==
    old_state = GAME_START =>
        /\ game_state = GAME_INPUT
        /\ current_score = 0
        /\ Cardinality(TileCells(number_grid)) = 2
        /\ \A p \in TileCells(number_grid) : number_grid[p[1]][p[2]] \in {2, 4}
        /\ high_score = old_high

\* A new game started over the score and high score of an earlier one; the
\* two tiles inserted are a 2 and a 4.
C14_Witness ==
    /\ old_state = GAME_START
    /\ old_score > 0
    /\ old_high > old_score
    /\ high_score = old_high
    /\ HoldsTile(number_grid, 2)
    /\ HoldsTile(number_grid, 4)

(***************************************************************************)
(* C15.  Every step taken in ENTER_TITLE_SCREEN, ENTER_INSTRUCTION_SCREEN, *)
(* ENTER_DIFFICULTY_SCREEN, ENTER_GAME, GAME_VICTORY or GAME_DEFEAT polls  *)
(* no key and ends in the paired input state (GAME_OVER_INPUT for the two  *)
(* banners), leaving the grid, the score and the animation pool unchanged. *)
(***************************************************************************)
PairedInput(state) ==
    CASE state = ENTER_TITLE_SCREEN -> TITLE_SCREEN_INPUT
      [] state = ENTER_INSTRUCTION_SCREEN -> INSTRUCTION_SCREEN_INPUT
      [] state = ENTER_DIFFICULTY_SCREEN -> DIFFICULTY_SCREEN_INPUT
      [] state = ENTER_GAME -> GAME_INPUT
      [] state \in {GAME_VICTORY, GAME_DEFEAT} -> GAME_OVER_INPUT

EnterStepMovesOn ==
    game_state \in {ENTER_TITLE_SCREEN, ENTER_INSTRUCTION_SCREEN,
                    ENTER_DIFFICULTY_SCREEN, ENTER_GAME, GAME_VICTORY,
                    GAME_DEFEAT} =>
        /\ ch' = NoPoll
        /\ game_state' = PairedInput(game_state)
        /\ UNCHANGED <<number_grid, current_score, high_score,
                       animated_blocks>>

C15_EnterStatesMoveOn == [][EnterStepMovesOn]_vars

\* The defeat banner was drawn over a full board and the step moved on.
C15_Witness ==
    /\ old_state = GAME_DEFEAT
    /\ game_state = GAME_OVER_INPUT
    /\ ch = NoPoll
    /\ NoEmptyCell(number_grid)

(***************************************************************************)
(* C16.  In every input state a step polls one key; when no key is pending *)
(* or the key is not one the state reacts to, the step leaves the game     *)
(* state, the grid, the score, the high score, the winning tile and the    *)
(* animation pool unchanged.                                               *)
(***************************************************************************)
InputStates ==
    {TITLE_SCREEN_INPUT, INSTRUCTION_SCREEN_INPUT, DIFFICULTY_SCREEN_INPUT,
     GAME_INPUT, GAME_OVER_INPUT}

RecognisedKeys(state) ==
    CASE state = TITLE_SCREEN_INPUT -> {"N", "n", "I", "i", "Q", "q"}
      [] state = DIFFICULTY_SCREEN_INPUT ->
           {"1", "2", "3", "4", "5", "6", "7", "8", "9", "0"}
      [] state = GAME_INPUT ->
           {"KEY_UP", "W", "w", "KEY_DOWN", "S", "s", "KEY_LEFT", "A", "a",
            "KEY_RIGHT", "D", "d", "Q", "q"}
      [] OTHER -> {"Q", "q"}

InputStepHolds ==
    game_state \in InputStates =>
        /\ ch' # NoPoll
        /\ ch' \notin RecognisedKeys(game_state) =>
             UNCHANGED <<game_state, number_grid, current_score, high_score,
                         winning_tile, animated_blocks>>

C16_InputStatesHold == [][InputStepHolds]_vars

\* After a victory the game-over screen was polled with no key pending and
\* held.
C16_Witness ==
    /\ old_state = GAME_OVER_INPUT
    /\ ch = ERR
    /\ game_state = GAME_OVER_INPUT
    /\ HoldsTile(number_grid, winning_tile)

(***************************************************************************)
(* C17.  The quit key ends the process only in TITLE_SCREEN_INPUT; in      *)
(* INSTRUCTION_SCREEN_INPUT, GAME_INPUT and GAME_OVER_INPUT it moves the   *)
(* state to ENTER_TITLE_SCREEN; DIFFICULTY_SCREEN_INPUT does not react to  *)
(* it, and the only state a step can move to from there is GAME_START, on  *)
(* a digit key, with the winning tile that digit selects (8 for 1, ...,    *)
(* 2048 for 9, 4096 for 0).                                                *)
(***************************************************************************)
TileOfDigit ==
    [d \in {"1", "2", "3", "4", "5", "6", "7", "8", "9", "0"} |->
        CASE d = "1" -> 8     [] d = "2" -> 16   [] d = "3" -> 32
          [] d = "4" -> 64    [] d = "5" -> 128  [] d = "6" -> 256
          [] d = "7" -> 512   [] d = "8" -> 1024 [] d = "9" -> 2048
          [] d = "0" -> 4096]

C17_QuitKey ==
    /\ game_state = PROCESS_EXITED =>
         (old_state = TITLE_SCREEN_INPUT /\ ch \in {"Q", "q"})
    /\ (old_state = TITLE_SCREEN_INPUT /\ ch \in {"Q", "q"}) =>
         game_state = PROCESS_EXITED
    /\ (old_state \in {INSTRUCTION_SCREEN_INPUT, GAME_INPUT, GAME_OVER_INPUT}
        /\ ch \in {"Q", "q"}) => game_state = ENTER_TITLE_SCREEN
    /\ old_state = DIFFICULTY_SCREEN_INPUT =>
         /\ ch \in {"Q", "q"} => game_state = DIFFICULTY_SCREEN_INPUT
         /\ \/ game_state = DIFFICULTY_SCREEN_INPUT
            \/ /\ game_state = GAME_START
               /\ ch \in DOMAIN TileOfDigit
               /\ winning_tile = TileOfDigit[ch]

\* The quit key was pressed on the difficulty screen, which held.
C17_Witness ==
    /\ old_state = DIFFICULTY_SCREEN_INPUT
    /\ ch \in {"Q", "q"}
    /\ game_state = DIFFICULTY_SCREEN_INPUT

(***************************************************************************)
(* C18.  In every reachable state high_score is at least current_score,    *)
(* and no step lowers high_score: after each step it is the larger of what *)
(* it was and the current score; a step from GAME_START sets current_score *)
(* to 0 and leaves high_score as it was.                                   *)
(***************************************************************************)
C18_HighScoreMonotone ==
    /\ high_score >= current_score
    /\ high_score >= old_high
    /\ high_score = (IF current_score > old_high THEN current_score
                     ELSE old_high)
    /\ old_state = GAME_START =>
         (current_score = 0 /\ high_score = old_high)

\* A move in a game whose score was below the high score of an earlier
\* game, merging enough to pass it.
C18_Witness ==
    /\ op \in ShiftNames
    /\ old_high > old_score
    /\ current_score > old_high
    /\ high_score = current_score

(***************************************************************************)
(* C19.  As claimed: no console call reads or writes a byte outside the    *)
(* console's buffer of 2 * width * height bytes, the bulk copy made by a   *)
(* scroll included.                                                        *)
(***************************************************************************)
C19_Original_AccessInBuffer ==
    \A k \in touched : k >= 0 /\ k < BufferSize(old_console)

(***************************************************************************)
(* C20.  After any sequence of console calls on a console whose cursor     *)
(* starts in bounds, the cursor is in bounds: 0 <= row < height and        *)
(* 0 <= col < width.                                                       *)
(***************************************************************************)
C20_CursorInBounds ==
    /\ console.row >= 0 /\ console.row < console.height
    /\ console.col >= 0 /\ console.col < console.width

\* A byte was put on the last cell of a console of several rows: the
\* console scrolled and the cursor is at the start of the last row.
C20_Witness ==
    /\ op = "console_putbyte"
    /\ rt \in OrdinaryBytes
    /\ old_console.height > 1
    /\ old_console.row = old_console.height - 1
    /\ old_console.col = old_console.width - 1
    /\ console.row = console.height - 1
    /\ console.col = 0

(***************************************************************************)
(* Reference scroll: the cells of a console after its rows 1..height-1     *)
(* moved up one row and the last row was blanked with the clear colour.    *)
(***************************************************************************)
RefScrolled(con) ==
    [k \in DOMAIN con.cells |->
        IF k < 2 * con.width * (con.height - 1)
        THEN con.cells[k + 2 * con.width]
        ELSE IF k % 2 = 0 THEN SPACE ELSE con.clear_color]

(***************************************************************************)
(* C21.  As claimed: for every console width and height, a scroll moves    *)
(* rows 1..height-1 into rows 0..height-2 cell for cell, blanks the last   *)
(* row with the clear colour, and leaves the cursor where it was.          *)
(***************************************************************************)
C21_Original_ScrollMovesRows ==
    op = "scroll_by_one" =>
        console = [old_console EXCEPT !.cells = RefScrolled(old_console)]

\* The cells of con with character char and colour color at (row, col).
CellsWith(con, row, col, char, color) ==
    [k \in DOMAIN con.cells |->
        IF k = 2 * (row * con.width + col) THEN char
        ELSE IF k = 2 * (row * con.width + col) + 1 THEN color
        ELSE con.cells[k]]

OnLastRow(con) == con.row = con.height - 1
OnLastCol(con) == con.col = con.width - 1

(***************************************************************************)
(* C22.  As claimed: console_putbyte of an ordinary byte stores the byte   *)
(* and the write colour (term_color) at the cursor cell and advances the   *)
(* cursor one column, wrapping to column 0 of the next row; from the last  *)
(* cell the console scrolls once (its rows, the stored byte included, move *)
(* up one row and the last row is blank) and the cursor ends at            *)
(* (height-1, 0).                                                          *)
(***************************************************************************)
C22_Original_PutOrdinaryByte ==
    (op = "console_putbyte" /\ args[1] \notin {BACKSPACE, NEWLINE, RETURN}) =>
        LET old == old_console
            written == [old EXCEPT !.cells =
                           CellsWith(old, old.row, old.col, args[1],
                                     old.term_color)]
        IN  /\ rt = args[1]
            /\ ~OnLastCol(old) =>
                   console = [written EXCEPT !.col = old.col + 1]
            /\ (OnLastCol(old) /\ ~OnLastRow(old)) =>
                   console = [written EXCEPT !.col = 0, !.row = old.row + 1]
            /\ (OnLastCol(old) /\ OnLastRow(old)) =>
                   console = [written EXCEPT !.col = 0,
                                             !.cells = RefScrolled(written)]

(***************************************************************************)
(* C23.  As claimed: console_putbyte of a newline, cursor not on the last  *)
(* row: the cursor moves to column 0 of the next row and no cell changes.  *)
(* Cursor on the last row: the console scrolls once (its rows move up one  *)
(* row and the last row is blank) and the cursor is at column 0 of the     *)
(* last row.                                                               *)
(***************************************************************************)
C23_Original_PutNewline ==
    (op = "console_putbyte" /\ args[1] = NEWLINE) =>
        LET old == old_console
        IN  /\ ~OnLastRow(old) =>
                   console = [old EXCEPT !.col = 0, !.row = old.row + 1]
            /\ OnLastRow(old) =>
                   console = [old EXCEPT !.col = 0,
                                         !.cells = RefScrolled(old)]

(***************************************************************************)
(* C24.  console_set_cursor(row, col): with (row, col) outside             *)
(* [0,height) x [0,width) it returns -1 and leaves the cursor and every    *)
(* cell unchanged; with (row, col) inside it returns 0, the cursor is      *)
(* exactly (row, col) and no cell changes.                                 *)
(***************************************************************************)
C24_SetCursor ==
    op = "console_set_cursor" =>
        LET row == args[1]
            col == args[2]
            inside == /\ 0 <= row /\ row < old_console.height
                      /\ 0 <= col /\ col < old_console.width
        IN  /\ inside =>
                   /\ rt = 0
                   /\ console = [old_console EXCEPT !.row = row, !.col = col]
            /\ ~inside => (rt = -1 /\ console = old_console)

\* The column just past the right edge was refused.
C24_Witness ==
    /\ op = "console_set_cursor"
    /\ args = <<0, old_console.width>>
    /\ rt = -1
    /\ console = old_console

(***************************************************************************)
(* Reference moves of one line of tiles, positions 1..GRID_SIZE counted    *)
(* from the edge the shift moves toward.  c is the position looked at, p   *)
(* the next free position, last the value of the tile at p-1 if it can     *)
(* still merge (0 otherwise).  A tile that merges moves onto p-1 and       *)
(* doubles; any other tile goes to p, and is a move only if c # p.         *)
(***************************************************************************)
RECURSIVE RefMoves(_, _, _, _)
RefMoves(line, c, p, last) ==
    IF c > GRID_SIZE THEN {}
    ELSE IF line[c] = 0 THEN RefMoves(line, c + 1, p, last)
    ELSE IF line[c] = last
    THEN {[from |-> c, to |-> p - 1, start_val |-> line[c],
           end_val |-> 2 * line[c]]} \cup RefMoves(line, c + 1, p, 0)
    ELSE (IF c # p
          THEN {[from |-> c, to |-> p, start_val |-> line[c],
                 end_val |-> line[c]]}
          ELSE {}) \cup RefMoves(line, c + 1, p + 1, line[c])

\* The board cell <<row, col>> at position n of line k for a shift.
CellToward(name, k, n) ==
    CASE name = "shift_left" -> <<k, n - 1>>
      [] name = "shift_right" -> <<k, GRID_SIZE - n>>
      [] name = "shift_up" -> <<n - 1, k>>
      [] name = "shift_down" -> <<GRID_SIZE - n, k>>

\* The slot a reference move of line k is recorded as.
RefSlot(name, k, mv) ==
    LET src == CellToward(name, k, mv.from)
        dst == CellToward(name, k, mv.to)
    IN  [state |-> ANI_BLOCK_MOVING,
         cur_row |-> CONSOLE_ROW(src[1]), cur_col |-> CONSOLE_COL(src[2]),
         dest_row |-> CONSOLE_ROW(dst[1]), dest_col |-> CONSOLE_COL(dst[2]),
         moving_value |-> mv.start_val, idle_value |-> mv.end_val]

RefAnimations(name, grid) ==
    UNION {{RefSlot(name, k, mv) :
               mv \in RefMoves(LineToward(name, grid, k), 1, 1, 0)} : k \in Idx}

MovingSlots == {ii \in Slots : animated_blocks[ii].state = ANI_BLOCK_MOVING}

\* Row 0 is [2,2,4,0] and the other rows are empty.
ExampleGrid(grid) ==
    /\ RowIs(grid, 0, 2, 2, 4, 0)
    /\ \A ii \in Idx \ {0} : RowIs(grid, ii, 0, 0, 0, 0)

(***************************************************************************)
(* C25.  After a shift the slots in use are exactly one MOVING slot per    *)
(* tile whose cell changed and none for a tile that stayed put: a slide    *)
(* from the tile's pre-shift cell to the cell it is written to with        *)
(* moving value = idle value = its value, a merge to the cell merged into  *)
(* with idle value = twice the moving value.  For the row [2,2,4,0]        *)
(* shifted left: a merge col1->col0 (2->4), a slide col2->col1 (4->4),     *)
(* score += 4.                                                             *)
(***************************************************************************)
C25_OneAnimationPerMovedTile ==
    op \in ShiftNames =>
        /\ {animated_blocks[ii] : ii \in MovingSlots}
              = RefAnimations(op, old_grid)
        /\ Cardinality(MovingSlots) = Cardinality(RefAnimations(op, old_grid))
        /\ \A ii \in Slots \ MovingSlots :
              animated_blocks[ii].state = ANI_BLOCK_DEAD
        /\ (op = "shift_left" /\ ExampleGrid(old_grid)) =>
              /\ {animated_blocks[ii] : ii \in MovingSlots}
                    = {[state |-> ANI_BLOCK_MOVING,
                        cur_row |-> CONSOLE_ROW(0), cur_col |-> CONSOLE_COL(1),
                        dest_row |-> CONSOLE_ROW(0), dest_col |-> CONSOLE_COL(0),
                        moving_value |-> 2, idle_value |-> 4],
                       [state |-> ANI_BLOCK_MOVING,
                        cur_row |-> CONSOLE_ROW(0), cur_col |-> CONSOLE_COL(2),
                        dest_row |-> CONSOLE_ROW(0), dest_col |-> CONSOLE_COL(1),
                        moving_value |-> 4, idle_value |-> 4]}
              /\ current_score = old_score + 4

\* The example: [2,2,4,0] was shifted left and two slots are in use.
C25_Witness ==
    /\ op = "shift_left"
    /\ ExampleGrid(old_grid)
    /\ RowIs(number_grid, 0, 4, 4, 0, 0)
    /\ Cardinality(MovingSlots) = 2

\* The board cells the reference moves of a shift take a tile away from.
MovedFrom(name, grid) ==
    UNION {{CellToward(name, k, mv.from) :
               mv \in RefMoves(LineToward(name, grid, k), 1, 1, 0)} : k \in Idx}

(***************************************************************************)
(* C26.  After a shift in any direction that reports changed,              *)
(* animated_background, in board orientation, is the pre-shift number_grid *)
(* with exactly the cells tiles moved away from set to 0; a tile that did  *)
(* not move keeps its pre-shift value at its own cell.                     *)
(***************************************************************************)
C26_BackgroundSnapshot ==
    (op \in ShiftNames /\ rt # 0) =>
        animated_background =
            [ii \in Idx |-> [jj \in Idx |->
                IF <<ii, jj>> \in MovedFrom(op, old_grid) THEN 0
                ELSE old_grid[ii][jj]]]

\* A shift down moved a tile away from one cell and left another tile
\* where it was.
C26_Witness ==
    /\ op = "shift_down"
    /\ rt # 0
    /\ \E ii \in Idx, jj \in Idx :
          old_grid[ii][jj] # 0 /\ animated_background[ii][jj] = 0
    /\ \E ii \in Idx, jj \in Idx :
          /\ old_grid[ii][jj] # 0
          /\ <<ii, jj>> \notin MovedFrom(op, old_grid)
          /\ animated_background[ii][jj] = old_grid[ii][jj]

DeadSlots(anims) == {ii \in Slots : anims[ii].state = ANI_BLOCK_DEAD}

\* One add_animation call: with a DEAD slot, the lowest one receives the
\* arguments and every other slot is as before; with none, nothing changes.
AddAnimationStep ==
    op' = "add_animation" =>
        IF DeadSlots(animated_blocks) = {}
        THEN animated_blocks' = animated_blocks
        ELSE \E first \in DeadSlots(animated_blocks) :
                /\ \A ii \in DeadSlots(animated_blocks) : first <= ii
                /\ animated_blocks'[first] =
                      [state |-> ANI_BLOCK_MOVING,
                       cur_row |-> args'[1], cur_col |-> args'[2],
                       dest_row |-> args'[3], dest_col |-> args'[4],
                       moving_value |-> args'[5], idle_value |-> args'[6]]
                /\ \A ii \in Slots \ {first} :
                      animated_blocks'[ii] = animated_blocks[ii]

\* One shift called with no DEAD slot: the grid, the score and the return
\* value are those of the reference shift, no slot is taken or released,
\* and every IDLE slot is as before.
FullPoolShiftStep ==
    (op' \in ShiftNames /\ DeadSlots(animated_blocks) = {}) =>
        /\ number_grid' = RefShift(op', number_grid)
        /\ current_score' = current_score + RefScoreGain(op', number_grid)
        /\ (rt' # 0) = (number_grid' # number_grid)
        /\ \A ii \in Slots :
              /\ animated_blocks'[ii].state = animated_blocks[ii].state
              /\ animated_blocks[ii].state = ANI_BLOCK_IDLE =>
                    animated_blocks'[ii] = animated_blocks[ii]

(***************************************************************************)
(* C27.  add_animation writes only into the first DEAD slot and never      *)
(* overwrites a MOVING or IDLE slot; with no DEAD slot it leaves the whole *)
(* pool unchanged, and the shift that called it still completes with its   *)
(* grid and score updates applied.                                         *)
(***************************************************************************)
C27_AddAnimationFirstDead ==
    [][AddAnimationStep /\ FullPoolShiftStep]_vars

\* A shift ran on a pool with every slot IDLE: tiles moved and merged, the
\* score rose, and no slot was taken for their animations.
C27_Witness ==
    /\ op \in ShiftNames
    /\ calls = 1
    /\ rt # 0
    /\ number_grid # old_grid
    /\ current_score > old_score
    /\ \A ii \in Slots : animated_blocks[ii].state = ANI_BLOCK_IDLE

AtDestination(cur) == cur.cur_row = cur.dest_row /\ cur.cur_col = cur.dest_col

(***************************************************************************)
(* C28.  step_moving_blocks returns 1 if and only if at least one slot is  *)
(* MOVING after the call; when it returns 0 no slot is MOVING and every    *)
(* IDLE slot has its current position equal to its destination.            *)
(***************************************************************************)
C28_ReturnIffStillMoving ==
    op = "step_moving_blocks" =>
        /\ rt \in {0, 1}
        /\ (rt = 1) = (MovingSlots # {})
        /\ rt = 0 =>
              \A ii \in Slots :
                 animated_blocks[ii].state = ANI_BLOCK_IDLE =>
                    AtDestination(animated_blocks[ii])

\* The call that ended an animation: it returned 0 and left IDLE slots.
C28_Witness ==
    /\ op = "step_moving_blocks"
    /\ rt = 0
    /\ MovingSlots = {}
    /\ \E ii \in Slots : animated_blocks[ii].state = ANI_BLOCK_IDLE

(***************************************************************************)
(* C29.  As claimed: a MOVING slot becomes IDLE in the same call in which  *)
(* its row and column distances both reach zero, so that after any call of *)
(* step_moving_blocks no slot is MOVING at its destination.                *)
(***************************************************************************)
C29_Original_IdleOnArrival ==
    op = "step_moving_blocks" =>
        \A ii \in MovingSlots : ~AtDestination(animated_blocks[ii])

\* pos moved toward dest by min(|distance|, ANI_STEP_SIZE).
Toward(pos, dest) ==
    LET distance == AbsDiff(pos, dest)
        step == IF distance < ANI_STEP_SIZE THEN distance ELSE ANI_STEP_SIZE
    IN  IF dest > pos THEN pos + step ELSE pos - step

StepMovesToward ==
    op' = "step_moving_blocks" =>
        \A ii \in Slots :
           LET before == animated_blocks[ii]
               after == animated_blocks'[ii]
           IN  IF before.state = ANI_BLOCK_MOVING
               THEN /\ after.cur_row = Toward(before.cur_row, before.dest_row)
                    /\ after.cur_col = Toward(before.cur_col, before.dest_col)
                    /\ AbsDiff(after.cur_row, before.dest_row)
                          <= AbsDiff(before.cur_row, before.dest_row)
                    /\ AbsDiff(after.cur_col, before.dest_col)
                          <= AbsDiff(before.cur_col, before.dest_col)
                    /\ after.dest_row = before.dest_row
                    /\ after.dest_col = before.dest_col
                    /\ after.moving_value = before.moving_value
                    /\ after.idle_value = before.idle_value
               ELSE after = before

(***************************************************************************)
(* C30.  One call of step_moving_blocks moves each MOVING slot's current   *)
(* row and column toward the destination by min(|distance|,                *)
(* ANI_STEP_SIZE) on each axis, never past the destination, changes none   *)
(* of dest_row, dest_col, moving_value, idle_value, and leaves every DEAD  *)
(* and IDLE slot as it was.                                                *)
(***************************************************************************)
C30_StepTowardDestination == [][StepMovesToward]_vars

\* A call left a slot in flight between two cells of the board, next to
\* a slot that is IDLE at its destination.
C30_Witness ==
    /\ op = "step_moving_blocks"
    /\ \E ii \in MovingSlots :
          /\ ~AtDestination(animated_blocks[ii])
          /\ \/ (animated_blocks[ii].cur_row - CONSOLE_ROW(0))
                   % (CONSOLE_ROW(1) - CONSOLE_ROW(0)) # 0
             \/ (animated_blocks[ii].cur_col - CONSOLE_COL(0))
                   % (CONSOLE_COL(1) - CONSOLE_COL(0)) # 0
    /\ \E ii \in Slots : animated_blocks[ii].state = ANI_BLOCK_IDLE

LetterKeys == {"W", "w", "A", "a", "S", "s", "D", "d"}

(***************************************************************************)
(* C31.  As claimed: in GAME_INPUT the letter keys do what the instruction *)
(* screen says: W shifts the blocks up, A left, S right and D down.        *)
(***************************************************************************)
C31_Original_KeysAsInstructed ==
    (old_state = GAME_INPUT /\ ch \in LetterKeys) =>
        /\ op = instruction_screen(ch)
        /\ number_grid = RefShift(instruction_screen(ch), old_grid)

\* Board cell <<r2, c2>> lies in the line of <<r, c>> a shift moves along,
\* strictly nearer the edge the shift moves toward.
NearerEdge(name, r, c, r2, c2) ==
    CASE name = "shift_left" -> r2 = r /\ c2 < c
      [] name = "shift_right" -> r2 = r /\ c2 > c
      [] name = "shift_up" -> c2 = c /\ r2 < r
      [] name = "shift_down" -> c2 = c /\ r2 > r

(***************************************************************************)
(* C32.  After a shift in any direction that reports changed, every MOVING *)
(* slot starts at the console position of a board cell that held its       *)
(* moving_value before the shift and ends at the console position of a     *)
(* board cell that holds a tile after it; the two cells are in the same    *)
(* row for left/right and the same column for up/down, and the end cell is *)
(* strictly nearer the edge shifted toward.                                *)
(***************************************************************************)
C32_SlotGeometry ==
    (op \in ShiftNames /\ rt # 0) =>
        \A ii \in MovingSlots :
            LET a == animated_blocks[ii]
            IN  \E r \in Idx, c \in Idx, r2 \in Idx, c2 \in Idx :
                    /\ a.cur_row = CONSOLE_ROW(r)
                    /\ a.cur_col = CONSOLE_COL(c)
                    /\ a.moving_value # 0
                    /\ old_grid[r][c] = a.moving_value
                    /\ a.dest_row = CONSOLE_ROW(r2)
                    /\ a.dest_col = CONSOLE_COL(c2)
                    /\ number_grid[r2][c2] \in {a.idle_value, 2 * a.idle_value}
                    /\ NearerEdge(op, r, c, r2, c2)

\* A vertical shift moved a tile the whole height of the board.
C32_Witness ==
    /\ op \in {"shift_up", "shift_down"}
    /\ rt # 0
    /\ \E ii \in MovingSlots :
          /\ animated_blocks[ii].cur_col = animated_blocks[ii].dest_col
          /\ AbsDiff(animated_blocks[ii].cur_row, animated_blocks[ii].dest_row)
                = CONSOLE_ROW(GRID_SIZE - 1) - CONSOLE_ROW(0)

\* One shift called from GAME_INPUT, compared with the state it was called in.
ShiftReportsChange ==
    (game_state = GAME_INPUT /\ op' \in ShiftNames) =>
        /\ rt' \in {0, 1}
        /\ (rt' = 1) = (number_grid' # number_grid)
        /\ (rt' = 1) = (\E ii \in Slots :
                           /\ animated_blocks[ii].state # ANI_BLOCK_MOVING
                           /\ animated_blocks'[ii].state = ANI_BLOCK_MOVING)
        /\ rt' = 0 =>
              /\ number_grid' = number_grid
              /\ current_score' = current_score
              /\ high_score' = high_score
              /\ animated_blocks' = animated_blocks

(***************************************************************************)
(* C33.  A shift in any direction returns 1 if and only if number_grid     *)
(* after the call differs from number_grid before it, and if and only if   *)
(* at least one animation slot became MOVING; when it returns 0,           *)
(* number_grid, current_score, high_score and every animation slot are as  *)
(* they were before the call.                                              *)
(***************************************************************************)
C33_ChangedIffGridDiffers == [][ShiftReportsChange]_vars

\* A shift of a board with tiles on it returned 0 and the game stayed in
\* GAME_INPUT with the board it had.
C33_Witness ==
    /\ op \in ShiftNames
    /\ old_state = GAME_INPUT
    /\ rt = 0
    /\ game_state = GAME_INPUT
    /\ number_grid = old_grid
    /\ number_grid # ZeroGrid
    /\ MovingSlots = {}

ConsoleRows == {CONSOLE_ROW(r) : r \in Idx}
ConsoleCols == {CONSOLE_COL(c) : c \in Idx}

(***************************************************************************)
(* C34.  Whenever the game state is GAME_INPUT or ENTER_GAME every one of  *)
(* the 16 animation slots is DEAD; so after a shift every MOVING slot was  *)
(* created by that shift and its coordinates were converted to console     *)
(* coordinates exactly once.                                               *)
(***************************************************************************)
C34_PoolDeadAtInput ==
    /\ game_state \in {GAME_INPUT, ENTER_GAME} =>
          \A ii \in Slots : animated_blocks[ii].state = ANI_BLOCK_DEAD
    /\ (op \in ShiftNames /\ rt # 0) =>
          /\ Cardinality(MovingSlots)
                = Cardinality(RefAnimations(op, old_grid))
          /\ \A ii \in MovingSlots :
                /\ animated_blocks[ii].cur_row \in ConsoleRows
                /\ animated_blocks[ii].cur_col \in ConsoleCols
                /\ animated_blocks[ii].dest_row \in ConsoleRows
                /\ animated_blocks[ii].dest_col \in ConsoleCols

\* The game is back in GAME_INPUT after an animation ran to its end.
C34_Witness ==
    /\ game_state = GAME_INPUT
    /\ old_state = ENTER_GAME
    /\ moves > 0
    /\ \A ii \in Slots : animated_blocks[ii].state = ANI_BLOCK_DEAD

\* The number of reference moves of a shift, line by line from line k on.
RECURSIVE RefMoveCount(_, _, _)
RefMoveCount(name, grid, k) ==
    IF k = GRID_SIZE THEN 0
    ELSE Cardinality(RefMoves(LineToward(name, grid, k), 1, 1, 0))
            + RefMoveCount(name, grid, k + 1)

\* The MOVING slots that start in line k of a shift.
MovingInLine(name, k) ==
    {ii \in MovingSlots :
        IF name \in {"shift_left", "shift_right"}
        THEN animated_blocks[ii].cur_row = CONSOLE_ROW(k)
        ELSE animated_blocks[ii].cur_col = CONSOLE_COL(k)}

(***************************************************************************)
(* C35.  No animation is dropped: a shift on a pool that is all DEAD       *)
(* records every one of its moves, at most GRID_SIZE - 1 per row or column *)
(* and at most 12 in all, and leaves DEAD slots over among the 16.         *)
(***************************************************************************)
C35_NoAnimationDropped ==
    op \in ShiftNames =>
        /\ Cardinality(MovingSlots) = RefMoveCount(op, old_grid, 0)
        /\ Cardinality(MovingSlots) <= GRID_SIZE * (GRID_SIZE - 1)
        /\ \A k \in Idx :
              Cardinality(MovingInLine(op, k)) <= GRID_SIZE - 1
        /\ Cardinality(DeadSlots(animated_blocks))
              >= MAX_ANIMATIONS - GRID_SIZE * (GRID_SIZE - 1)

\* A shift moved three tiles in every line: twelve slots are MOVING.
C35_Witness ==
    /\ op \in ShiftNames
    /\ Cardinality(MovingSlots) = GRID_SIZE * (GRID_SIZE - 1)
    /\ \A k \in Idx : Cardinality(MovingInLine(op, k)) = GRID_SIZE - 1

(***************************************************************************)
(* C36.  Whenever the game state is GAME_INPUT the grid is not lost and at *)
(* least one of the four shifts would return 1 and change the grid.        *)
(***************************************************************************)
C36_InputHasAMove ==
    game_state = GAME_INPUT =>
        /\ is_game_lost(number_grid) = 0
        /\ \E key \in MoveKeys :
              /\ shift_for_key(key, Globals).rt = 1
              /\ RefShift(shift_name(key), number_grid) # number_grid

\* After a move and the new tile the board is full, and the game is in
\* GAME_INPUT because two neighbours are equal.
C36_Witness ==
    /\ game_state = GAME_INPUT
    /\ old_state = ENTER_GAME
    /\ moves > 0
    /\ NoEmptyCell(number_grid)

\* The states of a game in progress or just ended.
PlayStates ==
    {ENTER_GAME, GAME_INPUT, SHIFTING_BLOCKS, DONE_SHIFTING_BLOCKS,
     GAME_VICTORY, GAME_DEFEAT, GAME_OVER_INPUT}

(***************************************************************************)
(* C37.  Whenever the game state is GAME_INPUT every tile of number_grid   *)
(* is strictly smaller than winning_tile; in no state of a game does a     *)
(* tile exceed winning_tile, and a tile equal to it is on the board only   *)
(* from the shift that made it to the end of that game.                    *)
(***************************************************************************)
C37_TilesBelowTarget ==
    /\ game_state \in {GAME_INPUT, ENTER_GAME} =>
          \A ii \in Idx, jj \in Idx : number_grid[ii][jj] < winning_tile
    /\ game_state \in PlayStates =>
          \A ii \in Idx, jj \in Idx : number_grid[ii][jj] <= winning_tile
    /\ (game_state \in PlayStates /\ is_game_won(number_grid, winning_tile) # 0) =>
          game_state \in {SHIFTING_BLOCKS, DONE_SHIFTING_BLOCKS,
                          GAME_VICTORY, GAME_OVER_INPUT}

\* The game is back in GAME_INPUT after a merge made a tile half the target.
C37_Witness ==
    /\ game_state = GAME_INPUT
    /\ old_state = ENTER_GAME
    /\ moves > 0
    /\ current_score > 0
    /\ \E ii \in Idx, jj \in Idx : 2 * number_grid[ii][jj] = winning_tile

EmptyCells(grid) == {p \in Idx \X Idx : grid[p[1]][p[2]] = 0}

(***************************************************************************)
(* C38.  After any shift that reports changed number_grid has at least one *)
(* empty cell; so the add_random_block call of DONE_SHIFTING_BLOCKS, made  *)
(* when the game is not won, always puts exactly one new tile (2 or 4) on  *)
(* an empty cell and changes nothing else.                                 *)
(***************************************************************************)
C38_ShiftLeavesRoom ==
    /\ (op \in ShiftNames /\ rt # 0) => EmptyCells(number_grid) # {}
    /\ game_state \in {SHIFTING_BLOCKS, DONE_SHIFTING_BLOCKS} =>
          EmptyCells(number_grid) # {}
    /\ (op = "add_random_block" /\ old_state = DONE_SHIFTING_BLOCKS) =>
          \E p \in EmptyCells(old_grid) :
              /\ number_grid[p[1]][p[2]] \in {2, 4}
              /\ number_grid = [old_grid EXCEPT ![p[1]][p[2]] = number_grid[p[1]][p[2]]]

\* A merge on a full board freed one cell, and the new tile filled it.
C38_Witness ==
    /\ op = "add_random_block"
    /\ old_state = DONE_SHIFTING_BLOCKS
    /\ Cardinality(EmptyCells(old_grid)) = 1
    /\ EmptyCells(number_grid) = {}

IdleSlots == {ii \in Slots : animated_blocks[ii].state = ANI_BLOCK_IDLE}

\* The character positions of the block of board cell <<r, c>>.
CellPositions(r, c) ==
    (CONSOLE_ROW(r) .. (CONSOLE_ROW(r) + BLOCK_ROWS - 1))
        \X (CONSOLE_COL(c) .. (CONSOLE_COL(c) + BLOCK_COLS - 1))

\* The IDLE slots whose destination is board cell <<r, c>>.
IdleAt(r, c) ==
    {ii \in IdleSlots : /\ animated_blocks[ii].dest_row = CONSOLE_ROW(r)
                        /\ animated_blocks[ii].dest_col = CONSOLE_COL(c)}

\* The value the layers give board cell <<r, c>>.
LayeredValue(r, c) ==
    IF IdleAt(r, c) = {} THEN animated_background[r][c]
    ELSE animated_blocks[CHOOSE ii \in IdleAt(r, c) :
                            \A kk \in IdleAt(r, c) : kk <= ii].idle_value

(***************************************************************************)
(* C39.  When the animation of a shift has finished (no slot MOVING, the   *)
(* recorded ones IDLE), the picture of draw_animation_frame shows in the   *)
(* block of every board cell the idle_value of the last-created animation  *)
(* whose destination is that cell, else the animated_background value,     *)
(* and that is number_grid at that cell (nothing where it is 0); no block  *)
(* is drawn anywhere else.                                                 *)
(***************************************************************************)
C39_FinishedPictureIsGrid ==
    (IdleSlots # {} /\ MovingSlots = {}) =>
        LET pic == draw_animation_frame(animated_background, animated_blocks)
        IN  /\ \A r \in Idx, c \in Idx :
                  /\ LayeredValue(r, c) = number_grid[r][c]
                  /\ \A p \in CellPositions(r, c) : pic[p] = number_grid[r][c]
            /\ \A p \in ConsolePositions :
                  (\A r \in Idx, c \in Idx : p \notin CellPositions(r, c)) =>
                      pic[p] = 0

\* An animation finished in which one cell was the destination of a slide
\* and then of a merge, next to a tile that stayed and was merged into.
C39_Witness ==
    /\ IdleSlots # {} /\ MovingSlots = {}
    /\ game_state = DONE_SHIFTING_BLOCKS
    /\ \E r \in Idx, c \in Idx :
          /\ Cardinality(IdleAt(r, c)) = 2
          /\ number_grid[r][c] = LayeredValue(r, c)
    /\ \E r \in Idx, c \in Idx :
          /\ Cardinality(IdleAt(r, c)) = 1
          /\ animated_background[r][c] # 0
          /\ number_grid[r][c] = 2 * animated_background[r][c]

(***************************************************************************)
(* C40.  As claimed: shift_grid_left reads and writes only cells           *)
(* grid[row][col] with 0 <= row < GRID_SIZE and 0 <= col < GRID_SIZE; the  *)
(* read of the scan index after its final increment does not touch column  *)
(* GRID_SIZE.                                                              *)
(***************************************************************************)
C40_Original_AccessInGrid ==
    op \in ShiftNames =>
        \A p \in touched : p[1] \in Idx /\ p[2] \in Idx

============================================================================
